---- MODULE Spec2Model ----
(***************************************************************************)
(* Book / chapter / verse resolution and pagination of the Bible reader.   *)
(*                                                                         *)
(* Strings are sequences of characters (one-character TLA+ strings; the    *)
(* accented letter e-circumflex is written "e^"), so that toLowerCase,     *)
(* trim and includes are computed, not assumed.                            *)
(***************************************************************************)
EXTENDS Integers, Sequences, FiniteSets, TLC

VARIABLES
    pc,             \* "idle" before the call, "done" after it
    op,             \* the operation that was called
    translation,    \* Scripture: the loaded sequence of books
    bookInput,      \* findBook's token
    found,          \* findBook's outcome
    book,           \* the Book handed to findChapter / pagination
    chapterNum,     \* chapter number argument
    verseNum,       \* verse number argument
    out,            \* outcome of findChapter / findVerse / pagination
    args,           \* arguments of the range, parsing, search and alias calls
    selectedBook,   \* ScriptureReader: code of the selected book
    selectedChapter,\* ScriptureReader: number of the selected chapter
    chapterData,    \* ScriptureReader: the chapter response on display
    loading,        \* ScriptureReader: the loading flag
    inflight,       \* ScriptureReader: chapter fetches not yet settled
    selectedVerses, \* ScriptureReader: the verse numbers selected for sharing
    translationCache, \* getTranslation: the Map from key to loaded translation
    calls,          \* getTranslation: the calls made so far, in order of their start
    loads           \* getTranslation: how often loadTranslation was invoked per key

callVars == <<pc, op, bookInput, found, book, chapterNum, verseNum, out, args>>
readerVars == <<selectedBook, selectedChapter, chapterData, loading, inflight, selectedVerses>>
cacheVars == <<translationCache, calls, loads>>
vars == <<translation, callVars, readerVars, cacheVars>>

(***************************** bounds **************************************)
MaxTokenLen == 3    \* longest book token tried
MaxBooks == 2       \* most books in a translation handed to findBook
MaxChapters == 3    \* most chapters in a book handed to the chapter/verse operations
MaxVerses == 3      \* most verses in a chapter
MaxReaderChapters == 2  \* most chapters per book in the reader's dataset
MaxInflight == 2    \* most chapter fetches in flight at once
MaxParamLen == 2    \* longest from / to query parameter
MaxExprLen == 5     \* longest verse expression handed to parseVerseRange
MaxQueryLen == 2    \* longest search query
MaxLimitLen == 1    \* longest limit query parameter
MaxCalls == 3       \* most getTranslation calls made
MaxPathParams == 4  \* most path segments of a request after /api/bible
MaxSelectable == 4  \* verses of the chapter whose verses are selected for sharing

(***************************** strings *************************************)
Chars == {"g", "n", "e", "e^", "G", " "}

UpperChars ==
    <<"A", "B", "C", "D", "E", "F", "G", "H", "I", "J", "K", "L", "M", "N", "O", "P", "Q", "R", "S", "T", "U", "V", "W", "X", "Y", "Z",
      "A'", "A^", "A~", "C,", "E'", "E^", "I'", "O'", "O^", "O~", "U'">>
LowerChars ==
    <<"a", "b", "c", "d", "e", "f", "g", "h", "i", "j", "k", "l", "m", "n", "o", "p", "q", "r", "s", "t", "u", "v", "w", "x", "y", "z",
      "a'", "a^", "a~", "c,", "e'", "e^", "i'", "o'", "o^", "o~", "u'">>

\* the lower-case letter of each upper-case letter
LowerOf ==
    [c \in {UpperChars[i] : i \in 1..Len(UpperChars)} |->
        LowerChars[CHOOSE i \in 1..Len(UpperChars) : UpperChars[i] = c]]

\* String.prototype.toLowerCase on one character
LowerChar(c) == IF c \in DOMAIN LowerOf THEN LowerOf[c] ELSE c

toLowerCase(s) == [i \in 1..Len(s) |-> LowerChar(s[i])]

IsSpace(c) == c = " "

RECURSIVE TrimStart(_)
TrimStart(s) ==
    IF s = <<>> THEN <<>>
    ELSE IF IsSpace(Head(s)) THEN TrimStart(Tail(s)) ELSE s

RECURSIVE TrimEnd(_)
TrimEnd(s) ==
    IF s = <<>> THEN <<>>
    ELSE IF IsSpace(s[Len(s)]) THEN TrimEnd(SubSeq(s, 1, Len(s) - 1)) ELSE s

\* String.prototype.trim
trim(s) == TrimEnd(TrimStart(s))

\* String.prototype.includes: sub occurs in s as a contiguous run
includes(s, sub) ==
    \E i \in 0..(Len(s) - Len(sub)) : SubSeq(s, i + 1, i + Len(sub)) = sub

RECURSIVE StringsUpTo(_)
StringsUpTo(n) ==
    IF n = 0 THEN {<<>>}
    ELSE LET shorter == StringsUpTo(n - 1)
         IN  shorter \cup {Append(s, c) : s \in {t \in shorter : Len(t) = n - 1}, c \in Chars}

(***************************** registry ************************************)
\* scriptureMap: code -> { en, 'pt-br' }, in canonical order
scriptureMap ==
    << [code |-> <<"g", "n">>, en |-> <<"G", "e", "n">>, pt |-> <<"G", "e^", "n">>],
       [code |-> <<"e", "n">>, en |-> <<"n", "e", "e">>, pt |-> <<"n", "e^", "e">>] >>

(***************************** plain objects *******************************)
\* the property names every plain object inherits from Object.prototype
ObjectPrototypeKeys ==
    {<<"c", "o", "n", "s", "t", "r", "u", "c", "t", "o", "r">>,
     <<"_", "_", "d", "e", "f", "i", "n", "e", "G", "e", "t", "t", "e", "r", "_", "_">>,
     <<"_", "_", "d", "e", "f", "i", "n", "e", "S", "e", "t", "t", "e", "r", "_", "_">>,
     <<"h", "a", "s", "O", "w", "n", "P", "r", "o", "p", "e", "r", "t", "y">>,
     <<"_", "_", "l", "o", "o", "k", "u", "p", "G", "e", "t", "t", "e", "r", "_", "_">>,
     <<"_", "_", "l", "o", "o", "k", "u", "p", "S", "e", "t", "t", "e", "r", "_", "_">>,
     <<"i", "s", "P", "r", "o", "t", "o", "t", "y", "p", "e", "O", "f">>,
     <<"p", "r", "o", "p", "e", "r", "t", "y", "I", "s", "E", "n", "u", "m", "e", "r", "a", "b", "l", "e">>,
     <<"t", "o", "S", "t", "r", "i", "n", "g">>,
     <<"v", "a", "l", "u", "e", "O", "f">>,
     <<"_", "_", "p", "r", "o", "t", "o", "_", "_">>,
     <<"t", "o", "L", "o", "c", "a", "l", "e", "S", "t", "r", "i", "n", "g">>}

\* what reading a missing property yields (undefined), written as a sequence
\* whose head is no character
Absent == <<"[undefined]">>

\* a value the || operator skips: undefined or the empty string
Falsy(v) == v = Absent \/ v = <<>>

\* what reading an inherited property yields: a function or object, never a
\* string; written as a sequence whose head is no character
Inherited(key) == <<"[inherited]">> \o key

\* obj[key] on a plain object whose own properties are the function own
GetProperty(own, key) ==
    IF key \in DOMAIN own THEN own[key]
    ELSE IF key \in ObjectPrototypeKeys THEN Inherited(key)
    ELSE Absent

\* key in obj
HasProperty(own, key) == key \in DOMAIN own \/ key \in ObjectPrototypeKeys

(***************************** registry aliases ****************************)
\* The reverse mapping built at module load: each entry registers its English
\* name, its Portuguese name and its code, a later registration overwriting
\* an earlier one.
RECURSIVE BuildAbbreviations(_, _)
BuildAbbreviations(i, acc) ==
    IF i > Len(scriptureMap) THEN acc
    ELSE LET englishName == toLowerCase(scriptureMap[i].en)
             portugueseName == toLowerCase(scriptureMap[i].pt)
             a1 == (englishName :> englishName) @@ acc
             a2 == (portugueseName :> englishName) @@ a1
             a3 == (toLowerCase(scriptureMap[i].code) :> englishName) @@ a2
         IN  BuildAbbreviations(i + 1, a3)

ABBREVIATION_TO_BOOK == BuildAbbreviations(1, <<>>)

normalizeBookName(input) ==
    LET normalized == trim(toLowerCase(input))
        value == GetProperty(ABBREVIATION_TO_BOOK, normalized)
    IN  IF Falsy(value) THEN normalized ELSE value

isValidBookName(input) ==
    HasProperty(ABBREVIATION_TO_BOOK, trim(toLowerCase(input)))

(***************************** findBook ************************************)
\* Array.prototype.find as the index of the first element satisfying the
\* predicate, 0 if none; matches[i] is the predicate's value on element i
Find(matches) ==
    IF \E i \in 1..Len(matches) : matches[i]
    THEN CHOOSE i \in 1..Len(matches) : matches[i] /\ \A j \in 1..(i - 1) : ~matches[j]
    ELSE 0

Null == [null |-> TRUE]
Undefined == [undefined |-> TRUE]

Returned(i) == [kind |-> "ok", index |-> i]
NotFoundError == [kind |-> "NotFoundError", index |-> 0]
NoResult == [kind |-> "none", index |-> 0]

\* mutant: partial matching tried before the exact rules
findBook_partialFirst(t, input) ==
    LET inputLower == trim(toLowerCase(input))
        partial == Find([k_ \in 1..Len(t) |-> LET b == t[k_] IN \/ includes(toLowerCase(b.name), inputLower)
                                                                \/ includes(inputLower, toLowerCase(b.name))])
        byCode == Find([k_ \in 1..Len(t) |-> LET b == t[k_] IN toLowerCase(b.code) = inputLower])
    IN  IF partial # 0 THEN Returned(partial)
        ELSE IF byCode # 0 THEN Returned(byCode)
        ELSE NotFoundError

\* mutant: the lookup by code is missing
findBook_noCode(t, input) ==
    LET inputLower == trim(toLowerCase(input))
        byName == Find([k_ \in 1..Len(t) |-> LET b == t[k_] IN toLowerCase(b.name) = inputLower])
        normalizedInput == normalizeBookName(inputLower)
        byNormalized == Find([k_ \in 1..Len(t) |-> LET b == t[k_] IN toLowerCase(b.name) = normalizedInput])
        scriptureMapEntry ==
            Find([k_ \in 1..Len(scriptureMap) |-> LET e == scriptureMap[k_] IN \/ toLowerCase(e.code) = inputLower
                                                                               \/ toLowerCase(e.en) = inputLower
                                                                               \/ toLowerCase(e.pt) = inputLower])
        byMap == IF scriptureMapEntry = 0 THEN 0
                 ELSE Find([k_ \in 1..Len(t) |-> LET b == t[k_] IN toLowerCase(b.code) =
                                                                   toLowerCase(scriptureMap[scriptureMapEntry].code)])
        partial == Find([k_ \in 1..Len(t) |-> LET b == t[k_] IN \/ includes(toLowerCase(b.name), inputLower)
                                                                \/ includes(inputLower, toLowerCase(b.name))])
    IN  IF byName # 0 THEN Returned(byName)
        ELSE IF byNormalized # 0 THEN Returned(byNormalized)
        ELSE IF byMap # 0 THEN Returned(byMap)
        ELSE IF partial # 0 THEN Returned(partial)
        ELSE NotFoundError

\* mutant: neither alias normalization nor the registry cross-reference
findBook_noAlias(t, input) ==
    LET inputLower == trim(toLowerCase(input))
        byCode == Find([k_ \in 1..Len(t) |-> LET b == t[k_] IN toLowerCase(b.code) = inputLower])
        byName == Find([k_ \in 1..Len(t) |-> LET b == t[k_] IN toLowerCase(b.name) = inputLower])
        partial == Find([k_ \in 1..Len(t) |-> LET b == t[k_] IN \/ includes(toLowerCase(b.name), inputLower)
                                                                \/ includes(inputLower, toLowerCase(b.name))])
    IN  IF byCode # 0 THEN Returned(byCode)
        ELSE IF byName # 0 THEN Returned(byName)
        ELSE IF partial # 0 THEN Returned(partial)
        ELSE NotFoundError

\* mutant: no partial matching before giving up
findBook_noPartial(t, input) ==
    LET inputLower == trim(toLowerCase(input))
        byCode == Find([k_ \in 1..Len(t) |-> LET b == t[k_] IN toLowerCase(b.code) = inputLower])
        byName == Find([k_ \in 1..Len(t) |-> LET b == t[k_] IN toLowerCase(b.name) = inputLower])
        normalizedInput == normalizeBookName(inputLower)
        byNormalized == Find([k_ \in 1..Len(t) |-> LET b == t[k_] IN toLowerCase(b.name) = normalizedInput])
        scriptureMapEntry ==
            Find([k_ \in 1..Len(scriptureMap) |-> LET e == scriptureMap[k_] IN \/ toLowerCase(e.code) = inputLower
                                                                               \/ toLowerCase(e.en) = inputLower
                                                                               \/ toLowerCase(e.pt) = inputLower])
        byMap == IF scriptureMapEntry = 0 THEN 0
                 ELSE Find([k_ \in 1..Len(t) |-> LET b == t[k_] IN toLowerCase(b.code) =
                                                                   toLowerCase(scriptureMap[scriptureMapEntry].code)])
    IN  IF byCode # 0 THEN Returned(byCode)
        ELSE IF byName # 0 THEN Returned(byName)
        ELSE IF byNormalized # 0 THEN Returned(byNormalized)
        ELSE IF byMap # 0 THEN Returned(byMap)
        ELSE NotFoundError

\* mutant: of the books matching by substring the last one is returned
findBook_partialLast(t, input) ==
    LET inputLower == trim(toLowerCase(input))
        \* first try to find by code
        byCode == Find([k_ \in 1..Len(t) |-> LET b == t[k_] IN toLowerCase(b.code) = inputLower])
        \* try to find by name
        byName == Find([k_ \in 1..Len(t) |-> LET b == t[k_] IN toLowerCase(b.name) = inputLower])
        \* try to find by normalized name
        normalizedInput == normalizeBookName(inputLower)
        byNormalized == Find([k_ \in 1..Len(t) |-> LET b == t[k_] IN toLowerCase(b.name) = normalizedInput])
        \* try to find by code using the scripture map
        scriptureMapEntry ==
            Find([k_ \in 1..Len(scriptureMap) |-> LET e == scriptureMap[k_] IN \/ toLowerCase(e.code) = inputLower
                                                                               \/ toLowerCase(e.en) = inputLower
                                                                               \/ toLowerCase(e.pt) = inputLower])
        byMap == IF scriptureMapEntry = 0 THEN 0
                 ELSE Find([k_ \in 1..Len(t) |-> LET b == t[k_] IN toLowerCase(b.code) =
                                                                   toLowerCase(scriptureMap[scriptureMapEntry].code)])
        \* try partial matching
        hits == {k_ \in 1..Len(t) : \/ includes(toLowerCase(t[k_].name), inputLower)
                                    \/ includes(inputLower, toLowerCase(t[k_].name))}
        partial == IF hits = {} THEN 0 ELSE CHOOSE k_ \in hits : \A j_ \in hits : j_ <= k_
    IN  IF byCode # 0 THEN Returned(byCode)
        ELSE IF byName # 0 THEN Returned(byName)
        ELSE IF byNormalized # 0 THEN Returned(byNormalized)
        ELSE IF byMap # 0 THEN Returned(byMap)
        ELSE IF partial # 0 THEN Returned(partial)
        ELSE NotFoundError

findBook(t, input) ==
    LET inputLower == trim(toLowerCase(input))
        \* first try to find by code
        byCode == Find([k_ \in 1..Len(t) |-> LET b == t[k_] IN toLowerCase(b.code) = inputLower])
        \* try to find by name
        byName == Find([k_ \in 1..Len(t) |-> LET b == t[k_] IN toLowerCase(b.name) = inputLower])
        \* try to find by normalized name
        normalizedInput == normalizeBookName(inputLower)
        byNormalized == Find([k_ \in 1..Len(t) |-> LET b == t[k_] IN toLowerCase(b.name) = normalizedInput])
        \* try to find by code using the scripture map
        scriptureMapEntry ==
            Find([k_ \in 1..Len(scriptureMap) |-> LET e == scriptureMap[k_] IN \/ toLowerCase(e.code) = inputLower
                                                                               \/ toLowerCase(e.en) = inputLower
                                                                               \/ toLowerCase(e.pt) = inputLower])
        byMap == IF scriptureMapEntry = 0 THEN 0
                 ELSE Find([k_ \in 1..Len(t) |-> LET b == t[k_] IN toLowerCase(b.code) =
                                                                   toLowerCase(scriptureMap[scriptureMapEntry].code)])
        \* try partial matching
        partial == Find([k_ \in 1..Len(t) |-> LET b == t[k_] IN \/ includes(toLowerCase(b.name), inputLower)
                                                                \/ includes(inputLower, toLowerCase(b.name))])
    IN  IF byCode # 0 THEN Returned(byCode)
        ELSE IF byName # 0 THEN Returned(byName)
        ELSE IF byNormalized # 0 THEN Returned(byNormalized)
        ELSE IF byMap # 0 THEN Returned(byMap)
        ELSE IF partial # 0 THEN Returned(partial)
        ELSE NotFoundError

(***************************** datasets ************************************)
OneVerse == << <<"v">> >>

\* Books a translation file may hold: the registry's books under their code
\* and English name, a book filed under a registry code with another name,
\* and books the registry does not know.
BookPool ==
    { [code |-> <<"g", "n">>, name |-> <<"G", "e", "n">>, chapters |-> OneVerse],
      [code |-> <<"e", "n">>, name |-> <<"n", "e", "e">>, chapters |-> OneVerse],
      [code |-> <<"e", "n">>, name |-> <<"g", "e">>, chapters |-> OneVerse],
      [code |-> <<"n", "g">>, name |-> <<"G", "e^", "n">>, chapters |-> OneVerse],
      [code |-> <<"g", "g">>, name |-> <<"n", "e", "e">>, chapters |-> OneVerse] }

RECURSIVE SeqsUpTo(_, _)
SeqsUpTo(S, n) ==
    IF n = 0 THEN {<<>>}
    ELSE LET shorter == SeqsUpTo(S, n - 1)
         IN  shorter \cup {Append(s, x) : s \in {t \in shorter : Len(t) = n - 1}, x \in S}

\* book codes are unique within a translation
Translations ==
    {t \in SeqsUpTo(BookPool, MaxBooks) :
        \A i, j \in 1..Len(t) : i # j => t[i].code # t[j].code}

Tokens == StringsUpTo(MaxTokenLen)

NoBook == [code |-> <<>>, name |-> <<>>, chapters |-> <<>>]

\* the reader is not mounted
ReaderIdle ==
    /\ selectedBook = <<>>
    /\ selectedChapter = 0
    /\ chapterData = Null
    /\ loading = FALSE
    /\ inflight = <<>>
    /\ selectedVerses = {}

\* the translation keys requested: the shipped translation, the same key in
\* capitals, and a key no file exists for
TranslationKeys == {<<"n", "v", "a">>, <<"N", "V", "A">>, <<"x", "x">>}

\* no translation was requested yet
CacheIdle ==
    /\ translationCache = <<>>
    /\ calls = <<>>
    /\ loads = [k \in TranslationKeys |-> 0]

(***************************** findBook calls ******************************)
InitFind ==
    /\ pc = "idle"
    /\ op = "none"
    /\ translation \in Translations
    /\ bookInput = <<>>
    /\ found = NoResult
    /\ book = NoBook
    /\ chapterNum = 0
    /\ verseNum = 0
    /\ out = [kind |-> "none"]
    /\ args = <<>>
    /\ ReaderIdle
    /\ CacheIdle

CallFindBook ==
    /\ pc = "idle"
    /\ \E token \in Tokens :
        /\ bookInput' = token
        /\ found' = findBook(translation, token)
    /\ pc' = "done"
    /\ op' = "findBook"
    /\ UNCHANGED <<args, translation, book, chapterNum, verseNum, out, readerVars, cacheVars>>

NextFind == CallFindBook

SpecFind == InitFind /\ [][NextFind]_vars

(***************************** claims: findBook ****************************)
RegistryEntries == {scriptureMap[i] : i \in 1..Len(scriptureMap)}

\* The five resolution rules as the specification words them, for one book
\* and one token.
RuleMatches(k, b, token) ==
    LET t == trim(toLowerCase(token))
    IN  CASE k = 1 -> toLowerCase(b.code) = t
          [] k = 2 -> toLowerCase(b.name) = t
          [] k = 3 -> toLowerCase(b.name) = normalizeBookName(t)
          [] k = 4 -> \E e \in RegistryEntries :
                        /\ t \in {toLowerCase(e.code), toLowerCase(e.en), toLowerCase(e.pt)}
                        /\ toLowerCase(b.code) = toLowerCase(e.code)
          [] k = 5 -> \/ includes(toLowerCase(b.name), t)
                      \/ includes(t, toLowerCase(b.name))

MatchedRules(t, token) ==
    {k \in 1..5 : \E i \in 1..Len(t) : RuleMatches(k, t[i], token)}

Least(S) == CHOOSE x \in S : \A y \in S : x <= y

FindBookDone == pc = "done" /\ op = "findBook"

\* C1: the first rule (in the order code, name, normalized name, registry
\* cross-reference, substring) that matches any book decides the result, and
\* within that rule the first matching book in translation order is returned.
C1_RuleOrder ==
    FindBookDone =>
        LET matched == MatchedRules(translation, bookInput)
        IN  matched # {} =>
              LET k == Least(matched)
                  i == Least({j \in 1..Len(translation) :
                                 RuleMatches(k, translation[j], bookInput)})
              IN  found = Returned(i)

\* a later book found by its code although an earlier book matches by substring
C1_Witness ==
    /\ FindBookDone
    /\ Len(translation) = 2
    /\ RuleMatches(5, translation[1], bookInput)
    /\ ~RuleMatches(1, translation[1], bookInput)
    /\ RuleMatches(1, translation[2], bookInput)
    /\ found = Returned(2)

\* C2: a token that spells a book's code in any letter case yields the book
\* carrying that code.
C2_CodeLookup ==
    FindBookDone =>
        \A i \in 1..Len(translation) :
            toLowerCase(bookInput) = toLowerCase(translation[i].code)
                => found = Returned(i)

\* an upper-case spelling of the second book's code
C2_Witness ==
    /\ FindBookDone
    /\ Len(translation) = 2
    /\ bookInput # toLowerCase(bookInput)
    /\ toLowerCase(bookInput) = translation[2].code
    /\ found = Returned(2)

IsCanonicalBook(b) ==
    \E e \in RegistryEntries : b.code = e.code /\ b.name = e.en

C4_NotFoundIff ==
    FindBookDone =>
        /\ found.kind \in {"ok", "NotFoundError"}
        /\ found.kind = "NotFoundError" <=> MatchedRules(translation, bookInput) = {}
        /\ found.kind = "ok" =>
              /\ found.index \in 1..Len(translation)
              /\ \E k \in 1..5 : RuleMatches(k, translation[found.index], bookInput)

\* a non-empty translation in which the token matches nothing
C4_Witness ==
    /\ FindBookDone
    /\ Len(translation) = 2
    /\ bookInput # <<>>
    /\ found = NotFoundError

(***************************** chapters and verses *************************)
\* JavaScript array read at a 0-based index
At0(arr, i) == arr[i + 1]

Ok(v) == [kind |-> "ok", value |-> v]
Thrown(e) == [kind |-> e]

\* mutant: the lower bound check is missing (chapters[-1] reads undefined)
findChapter_noLowerBound(b, n) ==
    IF n > Len(b.chapters) THEN Thrown("NotFoundError")
    ELSE IF n < 1 THEN Ok(Undefined)
    ELSE Ok(At0(b.chapters, n - 1))

findChapter(b, n) ==
    IF n < 1 \/ n > Len(b.chapters) THEN Thrown("NotFoundError")
    ELSE Ok(At0(b.chapters, n - 1))

\* mutant: the upper bound is off by one
findVerse_offByOne(chapter, n) ==
    IF n < 1 \/ n >= Len(chapter) THEN Thrown("NotFoundError")
    ELSE Ok(At0(chapter, n - 1))

findVerse(chapter, n) ==
    IF n < 1 \/ n > Len(chapter) THEN Thrown("NotFoundError")
    ELSE Ok(At0(chapter, n - 1))

\* `${book.name} ${chapter}` and `${book.name} ${chapter}:${verse}`
ChapterReference(b, c) == <<b.name, c>>
VerseReference(b, c, v) == <<b.name, c, v>>

\* mutant: the next chapter's verse count is read from the current chapter
getChapterPagination_wrongCount(b, n) ==
    LET isFirstChapter == n = 1
        isLastChapter == n = Len(b.chapters)
    IN  [ prevChapter |->
            IF isFirstChapter THEN Null
            ELSE [ number |-> n - 1,
                   reference |-> ChapterReference(b, n - 1),
                   verses |-> Len(At0(b.chapters, n - 2)) ],
          nextChapter |->
            IF isLastChapter THEN Null
            ELSE [ number |-> n + 1,
                   reference |-> ChapterReference(b, n + 1),
                   verses |-> Len(At0(b.chapters, n - 1)) ] ]

getChapterPagination(b, n) ==
    LET isFirstChapter == n = 1
        isLastChapter == n = Len(b.chapters)
    IN  [ prevChapter |->
            IF isFirstChapter THEN Null
            ELSE [ number |-> n - 1,
                   reference |-> ChapterReference(b, n - 1),
                   verses |-> Len(At0(b.chapters, n - 2)) ],
          nextChapter |->
            IF isLastChapter THEN Null
            ELSE [ number |-> n + 1,
                   reference |-> ChapterReference(b, n + 1),
                   verses |-> Len(At0(b.chapters, n)) ] ]

\* mutant: the last verse is told from the number of chapters
getVersePagination_wrongLast(b, c, v) ==
    LET currentChapter == At0(b.chapters, c - 1)
        isFirstVerse == v = 1
        isLastVerse == v = Len(b.chapters)
        isFirstChapter == c = 1
        isLastChapter == c = Len(b.chapters)
    IN  [ prevVerse |->
            IF isFirstVerse THEN Null
            ELSE [number |-> v - 1, reference |-> VerseReference(b, c, v - 1)],
          nextVerse |->
            IF isLastVerse THEN Null
            ELSE [number |-> v + 1, reference |-> VerseReference(b, c, v + 1)],
          prevChapter |->
            IF isFirstVerse /\ ~isFirstChapter
            THEN [ number |-> c - 1,
                   reference |-> ChapterReference(b, c - 1),
                   lastVerse |-> Len(At0(b.chapters, c - 2)) ]
            ELSE Null,
          nextChapter |->
            IF isLastVerse /\ ~isLastChapter
            THEN [ number |-> c + 1,
                   reference |-> ChapterReference(b, c + 1),
                   firstVerse |-> 1 ]
            ELSE Null ]

\* mutant: the previous chapter's last verse is read from the current chapter
getVersePagination_wrongLastVerse(b, c, v) ==
    LET currentChapter == At0(b.chapters, c - 1)
        isFirstVerse == v = 1
        isLastVerse == v = Len(currentChapter)
        isFirstChapter == c = 1
        isLastChapter == c = Len(b.chapters)
    IN  [ prevVerse |->
            IF isFirstVerse THEN Null
            ELSE [number |-> v - 1, reference |-> VerseReference(b, c, v - 1)],
          nextVerse |->
            IF isLastVerse THEN Null
            ELSE [number |-> v + 1, reference |-> VerseReference(b, c, v + 1)],
          prevChapter |->
            IF isFirstVerse /\ ~isFirstChapter
            THEN [ number |-> c - 1,
                   reference |-> ChapterReference(b, c - 1),
                   lastVerse |-> Len(currentChapter) ]
            ELSE Null,
          nextChapter |->
            IF isLastVerse /\ ~isLastChapter
            THEN [ number |-> c + 1,
                   reference |-> ChapterReference(b, c + 1),
                   firstVerse |-> 1 ]
            ELSE Null ]

getVersePagination(b, c, v) ==
    LET currentChapter == At0(b.chapters, c - 1)
        isFirstVerse == v = 1
        isLastVerse == v = Len(currentChapter)
        isFirstChapter == c = 1
        isLastChapter == c = Len(b.chapters)
    IN  [ prevVerse |->
            IF isFirstVerse THEN Null
            ELSE [number |-> v - 1, reference |-> VerseReference(b, c, v - 1)],
          nextVerse |->
            IF isLastVerse THEN Null
            ELSE [number |-> v + 1, reference |-> VerseReference(b, c, v + 1)],
          prevChapter |->
            IF isFirstVerse /\ ~isFirstChapter
            THEN [ number |-> c - 1,
                   reference |-> ChapterReference(b, c - 1),
                   lastVerse |-> Len(At0(b.chapters, c - 2)) ]
            ELSE Null,
          nextChapter |->
            IF isLastVerse /\ ~isLastChapter
            THEN [ number |-> c + 1,
                   reference |-> ChapterReference(b, c + 1),
                   firstVerse |-> 1 ]
            ELSE Null ]

\* A verse's text; every verse of a book has a text of its own.
VerseText(c, v) == <<"verse", c, v>>

\* The book whose chapters have the given numbers of verses.
BookOfShape(shape) ==
    [ code |-> <<"g", "n">>,
      name |-> <<"G", "e", "n">>,
      chapters |-> [c \in 1..Len(shape) |-> [v \in 1..shape[c] |-> VerseText(c, v)]] ]

\* Books of 1..MaxChapters chapters of 1..MaxVerses verses each.
Books ==
    {BookOfShape(shape) : shape \in SeqsUpTo(1..MaxVerses, MaxChapters) \ {<<>>}}

(***************************** chapter / verse calls ***********************)
InitNav ==
    /\ pc = "idle"
    /\ op = "none"
    /\ translation = <<>>
    /\ bookInput = <<>>
    /\ found = NoResult
    /\ book \in Books
    /\ chapterNum = 0
    /\ verseNum = 0
    /\ out = [kind |-> "none"]
    /\ args = <<>>
    /\ ReaderIdle
    /\ CacheIdle

CallFindChapter ==
    /\ pc = "idle"
    /\ \E n \in (-1)..(Len(book.chapters) + 2) :
        /\ chapterNum' = n
        /\ out' = findChapter(book, n)
    /\ pc' = "done"
    /\ op' = "findChapter"
    /\ UNCHANGED <<args, translation, bookInput, found, book, verseNum, readerVars, cacheVars>>

CallFindVerse ==
    /\ pc = "idle"
    /\ \E k \in 1..Len(book.chapters) :
        LET chapter == findChapter(book, k).value
        IN  \E n \in (-1)..(Len(chapter) + 2) :
              /\ chapterNum' = k
              /\ verseNum' = n
              /\ out' = findVerse(chapter, n)
    /\ pc' = "done"
    /\ op' = "findVerse"
    /\ UNCHANGED <<args, translation, bookInput, found, book, readerVars, cacheVars>>

CallGetChapterPagination ==
    /\ pc = "idle"
    /\ \E k \in 1..Len(book.chapters) :
        /\ chapterNum' = k
        /\ out' = Ok(getChapterPagination(book, k))
    /\ pc' = "done"
    /\ op' = "getChapterPagination"
    /\ UNCHANGED <<args, translation, bookInput, found, book, verseNum, readerVars, cacheVars>>

CallGetVersePagination ==
    /\ pc = "idle"
    /\ \E k \in 1..Len(book.chapters) :
        \E v \in 1..Len(book.chapters[k]) :
            /\ chapterNum' = k
            /\ verseNum' = v
            /\ out' = Ok(getVersePagination(book, k, v))
    /\ pc' = "done"
    /\ op' = "getVersePagination"
    /\ UNCHANGED <<args, translation, bookInput, found, book, readerVars, cacheVars>>

NextNav ==
    \/ CallFindChapter
    \/ CallFindVerse
    \/ CallGetChapterPagination
    \/ CallGetVersePagination

SpecNav == InitNav /\ [][NextNav]_vars

(***************************** claims: chapters and verses *****************)
NumChapters == Len(book.chapters)

\* C5: findChapter throws NotFoundError for n < 1 and for n > N, and for
\* 1 <= n <= N returns the n-th chapter (0-based index n-1).
C5_FindChapter ==
    (pc = "done" /\ op = "findChapter") =>
        IF chapterNum < 1 \/ chapterNum > NumChapters
        THEN out = Thrown("NotFoundError")
        ELSE /\ out.kind = "ok"
             /\ out.value = [v \in 1..Len(book.chapters[chapterNum]) |->
                                VerseText(chapterNum, v)]

\* the calls with n = 0 and n = N + 1 fail and a call in between succeeds
C5_Witness ==
    /\ pc = "done" /\ op = "findChapter"
    /\ NumChapters = 3
    /\ chapterNum = NumChapters + 1
    /\ out = Thrown("NotFoundError")

\* C6: findVerse throws NotFoundError unless 1 <= n <= M, and otherwise
\* returns the n-th verse's text (0-based index n-1).
C6_FindVerse ==
    (pc = "done" /\ op = "findVerse") =>
        IF verseNum < 1 \/ verseNum > Len(book.chapters[chapterNum])
        THEN out = Thrown("NotFoundError")
        ELSE out = Ok(VerseText(chapterNum, verseNum))

\* the last verse of a later chapter is returned
C6_Witness ==
    /\ pc = "done" /\ op = "findVerse"
    /\ chapterNum = 2
    /\ verseNum = Len(book.chapters[2])
    /\ verseNum > 1
    /\ out = Ok(VerseText(2, verseNum))

\* C7: prevChapter is null iff k = 1, nextChapter is null iff k = N; the
\* neighbours are numbered k-1 and k+1 and carry the neighbouring chapter's
\* number of verses.
C7_ChapterPagination ==
    (pc = "done" /\ op = "getChapterPagination") =>
        LET p == out.value
            k == chapterNum
        IN  /\ p.prevChapter = Null <=> k = 1
            /\ p.nextChapter = Null <=> k = NumChapters
            /\ k > 1 => /\ p.prevChapter.number = k - 1
                        /\ p.prevChapter.verses = Len(book.chapters[k - 1])
            /\ k < NumChapters =>
                        /\ p.nextChapter.number = k + 1
                        /\ p.nextChapter.verses = Len(book.chapters[k + 1])

\* a middle chapter whose neighbours differ in length from it and each other
C7_Witness ==
    /\ pc = "done" /\ op = "getChapterPagination"
    /\ NumChapters = 3 /\ chapterNum = 2
    /\ Len(book.chapters[1]) = 1 /\ Len(book.chapters[2]) = 2 /\ Len(book.chapters[3]) = 3
    /\ out.value.prevChapter.verses = 1
    /\ out.value.nextChapter.verses = 3

\* C8: prevVerse is null iff v = 1 (else numbered v-1); nextVerse is null iff
\* v is the chapter's length (else numbered v+1).
C8_VersePagination ==
    (pc = "done" /\ op = "getVersePagination") =>
        LET p == out.value
            v == verseNum
            M == Len(book.chapters[chapterNum])
        IN  /\ p.prevVerse = Null <=> v = 1
            /\ p.nextVerse = Null <=> v = M
            /\ v > 1 => p.prevVerse.number = v - 1
            /\ v < M => p.nextVerse.number = v + 1

\* a middle verse with both neighbours
C8_Witness ==
    /\ pc = "done" /\ op = "getVersePagination"
    /\ Len(book.chapters[chapterNum]) = 3 /\ verseNum = 2
    /\ out.value.prevVerse.number = 1
    /\ out.value.nextVerse.number = 3

\* C9: prevChapter is non-null iff v = 1 and k > 1, and then names chapter
\* k-1 with that chapter's length as lastVerse; nextChapter is non-null iff
\* v is the last verse of chapter k and k < N, and then names chapter k+1
\* with firstVerse 1.
C9_VerseChapterEdges ==
    (pc = "done" /\ op = "getVersePagination") =>
        LET p == out.value
            k == chapterNum
            v == verseNum
            M == Len(book.chapters[chapterNum])
        IN  /\ p.prevChapter # Null <=> (v = 1 /\ k > 1)
            /\ p.nextChapter # Null <=> (v = M /\ k < NumChapters)
            /\ (v = 1 /\ k > 1) =>
                  /\ p.prevChapter.number = k - 1
                  /\ p.prevChapter.lastVerse = Len(book.chapters[k - 1])
            /\ (v = M /\ k < NumChapters) =>
                  /\ p.nextChapter.number = k + 1
                  /\ p.nextChapter.firstVerse = 1

\* the first verse of a later chapter whose predecessor has another length
C9_Witness ==
    /\ pc = "done" /\ op = "getVersePagination"
    /\ chapterNum = 2 /\ verseNum = 1
    /\ Len(book.chapters[1]) = 3 /\ Len(book.chapters[2]) = 2
    /\ out.value.prevChapter.lastVerse = 3
    /\ out.value.nextChapter = Null

(***************************** chapter endpoint ****************************)
formatBookData(b) ==
    [code |-> b.code, name |-> b.name, chapters |-> Len(b.chapters)]

\* formatChapterResponse without a verse filter
formatChapterResponse(chapter, n, b) ==
    [ book |-> formatBookData(b),
      chapter |-> [number |-> n, name |-> ChapterReference(b, n), totalVerses |-> Len(chapter)],
      verses |-> [i \in 1..Len(chapter) |-> [verse |-> i, text |-> At0(chapter, i - 1)]],
      pagination |-> getChapterPagination(b, n) ]

\* GET /api/bible/{translation}/{book}/{chapter} for a chapter number the
\* client sends as a decimal integer: validate, find the book, find the
\* chapter, format. The outcome is the formatted chapter or the error thrown.
ChapterEndpoint(t, bookParam, n) ==
    IF n < 1 THEN Thrown("ValidationError")
    ELSE LET f == findBook(t, bookParam)
         IN  IF f.kind # "ok" THEN Thrown("NotFoundError")
             ELSE LET b == t[f.index]
                      c == findChapter(b, n)
                  IN  IF c.kind # "ok" THEN c
                      ELSE Ok(formatChapterResponse(c.value, n, b))

(***************************** reader dataset ******************************)
\* The registry's i-th book under its code and English name, with the given
\* number of chapters; chapter c has 1 or 2 verses.
CanonicalBook(i, n) ==
    [ code |-> scriptureMap[i].code,
      name |-> scriptureMap[i].en,
      chapters |-> [c \in 1..n |-> [v \in 1..(1 + (c % 2)) |-> VerseText(c, v)]] ]

ReaderTranslations ==
    { <<CanonicalBook(1, a), CanonicalBook(2, b)>> : a, b \in 1..MaxReaderChapters }

\* the books prop: one entry per book of the dataset
ReaderBooks(t) ==
    [i \in 1..Len(t) |-> [code |-> t[i].code, name |-> t[i].name, chapters |-> Len(t[i].chapters)]]

(***************************** ScriptureReader *****************************)
InitReader ==
    /\ pc = "idle"
    /\ op = "none"
    /\ translation \in ReaderTranslations
    /\ bookInput = <<>>
    /\ found = NoResult
    /\ book = NoBook
    /\ chapterNum = 0
    /\ verseNum = 0
    /\ out = [kind |-> "none"]
    /\ args = <<>>
    \* the page fetches the chapter named by the URL and mounts the reader
    /\ \E i \in 1..Len(translation) : \E k \in 1..Len(translation[i].chapters) :
        /\ selectedBook = translation[i].code
        /\ selectedChapter = k
        /\ chapterData = ChapterEndpoint(translation, toLowerCase(translation[i].name), k).value
    /\ loading = FALSE
    /\ inflight = <<>>
    /\ selectedVerses = {}
    /\ CacheIdle

\* loadChapter up to its await: raise the flag and issue the fetch
LoadChapterStarts(bookName, n) ==
    /\ loading' = TRUE
    /\ inflight' = Append(inflight, [book |-> bookName, chapter |-> n])

\* the book of the books prop with the given code, 0 if none
BookByCode(code) ==
    Find([k_ \in 1..Len(ReaderBooks(translation)) |-> ReaderBooks(translation)[k_].code = code])

\* load the chapter of the book with this code, if the books prop has it
LoadByCode(code, n) ==
    LET i == BookByCode(code)
    IN  IF i # 0
        THEN LoadChapterStarts(toLowerCase(ReaderBooks(translation)[i].name), n)
        ELSE UNCHANGED <<loading, inflight>>

handleBookChange ==
    /\ Len(inflight) < MaxInflight
    /\ \E i \in 1..Len(translation) :
        LET bookCode == ReaderBooks(translation)[i].code
        IN  /\ selectedBook' = bookCode
            /\ selectedChapter' = 1
            /\ LoadByCode(bookCode, 1)
    /\ UNCHANGED <<cacheVars, translation, callVars, chapterData, selectedVerses>>

handleChapterChange ==
    /\ Len(inflight) < MaxInflight
    /\ BookByCode(selectedBook) # 0
    /\ \E n \in 1..ReaderBooks(translation)[BookByCode(selectedBook)].chapters :
        /\ selectedChapter' = n
        /\ IF selectedBook # <<>>
           THEN LoadByCode(selectedBook, n)
           ELSE UNCHANGED <<loading, inflight>>
    /\ UNCHANGED <<cacheVars, translation, callVars, selectedBook, chapterData, selectedVerses>>

\* goToPrevChapter / goToNextChapter, given the neighbour the pagination names
GoTo(neighbour) ==
    /\ selectedChapter' = neighbour.number
    /\ IF "book" \in DOMAIN neighbour /\ neighbour.book # chapterData.book.code
       THEN /\ selectedBook' = neighbour.book
            /\ LoadByCode(neighbour.book, neighbour.number)
       ELSE /\ UNCHANGED selectedBook
            /\ LoadByCode(selectedBook, neighbour.number)
    /\ UNCHANGED <<cacheVars, translation, callVars, chapterData, selectedVerses>>

goToPrevChapter ==
    /\ Len(inflight) < MaxInflight
    /\ chapterData # Null
    /\ chapterData.pagination.prevChapter # Null
    /\ GoTo(chapterData.pagination.prevChapter)

goToNextChapter ==
    /\ Len(inflight) < MaxInflight
    /\ chapterData # Null
    /\ chapterData.pagination.nextChapter # Null
    /\ GoTo(chapterData.pagination.nextChapter)

RemoveAt(seq, i) == SubSeq(seq, 1, i - 1) \o SubSeq(seq, i + 1, Len(seq))

\* a fetch settles, in any order: with the chapter (setChapterData), or with
\* an error status or a network failure (caught and logged); the flag is
\* lowered in either case
FetchSettles ==
    /\ \E i \in 1..Len(inflight) : \E networkOk \in BOOLEAN :
        LET response == ChapterEndpoint(translation, inflight[i].book, inflight[i].chapter)
        IN  /\ chapterData' = IF networkOk /\ response.kind = "ok"
                              THEN response.value
                              ELSE chapterData
            \* clearSelection() after setChapterData
            /\ selectedVerses' = IF networkOk /\ response.kind = "ok"
                                 THEN {}
                                 ELSE selectedVerses
            /\ inflight' = RemoveAt(inflight, i)
    /\ loading' = FALSE
    /\ UNCHANGED <<cacheVars, translation, callVars, selectedBook, selectedChapter>>

NextReader ==
    \/ handleBookChange
    \/ handleChapterChange
    \/ goToPrevChapter
    \/ goToNextChapter
    \/ FetchSettles

SpecReader == InitReader /\ [][NextReader]_vars

(***************************** claims: reader pagination *******************)
\* position of the displayed chapter's book in the dataset
DisplayedBook == Find([k_ \in 1..Len(translation) |-> LET b == translation[k_] IN b.code = chapterData.book.code])

\* C10: the pagination on display crosses book boundaries: at the last
\* chapter of a book that is not the last, nextChapter names chapter 1 of the
\* next book with that book's code; at chapter 1 of a book that is not the
\* first, prevChapter names the last chapter of the previous book with its
\* code. (Following nextChapter from the first chapter of the first book then
\* reaches every chapter of every book in canonical order.)
C10_CrossBookPagination ==
    chapterData # Null =>
        LET i == DisplayedBook
            k == chapterData.chapter.number
            p == chapterData.pagination
        IN  /\ (k = Len(translation[i].chapters) /\ i < Len(translation)) =>
                  /\ p.nextChapter # Null
                  /\ p.nextChapter.number = 1
                  /\ "book" \in DOMAIN p.nextChapter
                  /\ p.nextChapter.book = translation[i + 1].code
            /\ (k = 1 /\ i > 1) =>
                  /\ p.prevChapter # Null
                  /\ p.prevChapter.number = Len(translation[i - 1].chapters)
                  /\ "book" \in DOMAIN p.prevChapter
                  /\ p.prevChapter.book = translation[i - 1].code

(***************************** numeric strings *****************************)
DigitChars == <<"0", "1", "2", "3", "4", "5", "6", "7", "8", "9">>
Digits == {DigitChars[i] : i \in 1..Len(DigitChars)}
DigitVal(c) == (CHOOSE i \in 1..Len(DigitChars) : DigitChars[i] = c) - 1

\* the characters query parameters are drawn from
ParamChars == {"0", "1", "2", "-", " ", "a"}

\* the longest run of digits at the start of s
RECURSIVE DigitPrefix(_)
DigitPrefix(s) ==
    IF s = <<>> \/ Head(s) \notin Digits THEN <<>>
    ELSE <<Head(s)>> \o DigitPrefix(Tail(s))

\* the value of a run of decimal digits
RECURSIVE DecimalValue(_)
DecimalValue(ds) ==
    IF ds = <<>> THEN 0
    ELSE 10 * DecimalValue(SubSeq(ds, 1, Len(ds) - 1)) + DigitVal(ds[Len(ds)])

\* a number: NaN, or an integer
NaN == [isNaN |-> TRUE, num |-> 0]
Num(n) == [isNaN |-> FALSE, num |-> n]

\* parseInt: leading white space skipped, an optional sign, then the longest
\* run of digits; NaN when that run is empty; what follows the run is ignored
parseInt(s) ==
    LET t == TrimStart(s)
        negative == t # <<>> /\ Head(t) = "-"
        ds == DigitPrefix(IF negative THEN Tail(t) ELSE t)
    IN  IF ds = <<>> THEN NaN
        ELSE IF negative THEN Num(0 - DecimalValue(ds)) ELSE Num(DecimalValue(ds))

validateNumber(value) ==
    LET num == parseInt(value)
    IN  IF num.isNaN \/ num.num < 1 THEN Thrown("ValidationError")
        ELSE Ok(num.num)

(***************************** filterVersesByRange *************************)
\* an optional string parameter: left out, or given with a value
Omitted == [given |-> FALSE, value |-> <<>>]
Given(s) == [given |-> TRUE, value |-> s]
\* JavaScript truthiness of an optional string: given and not empty
Truthy(p) == p.given /\ p.value # <<>>

Min(a, b) == IF a < b THEN a ELSE b

\* mutant: the loop starts one verse late
filterVersesByRange_startsLate(chapter, from, to) ==
    LET f == IF Truthy(from) THEN validateNumber(from.value) ELSE Ok(1)
        t == IF Truthy(to) THEN validateNumber(to.value) ELSE Ok(Len(chapter))
    IN  IF f.kind # "ok" THEN f
        ELSE IF t.kind # "ok" THEN t
        ELSE IF f.value > t.value THEN Thrown("ValidationError")
        ELSE LET last == Min(t.value, Len(chapter))
                 count == IF last > f.value THEN last - f.value ELSE 0
             IN  Ok([k \in 1..count |->
                        [verse |-> f.value + k, text |-> At0(chapter, f.value + k - 1)]])

\* mutant: from is not compared with a defaulted to
filterVersesByRange_lenientDefault(chapter, from, to) ==
    LET f == IF Truthy(from) THEN validateNumber(from.value) ELSE Ok(1)
        t == IF Truthy(to) THEN validateNumber(to.value) ELSE Ok(Len(chapter))
    IN  IF f.kind # "ok" THEN f
        ELSE IF t.kind # "ok" THEN t
        ELSE IF Truthy(to) /\ f.value > t.value THEN Thrown("ValidationError")
        ELSE LET last == Min(t.value, Len(chapter))
                 count == IF last >= f.value THEN last - f.value + 1 ELSE 0
             IN  Ok([k \in 1..count |->
                        [verse |-> f.value + k - 1, text |-> At0(chapter, f.value + k - 2)]])

filterVersesByRange(chapter, from, to) ==
    LET f == IF Truthy(from) THEN validateNumber(from.value) ELSE Ok(1)
        t == IF Truthy(to) THEN validateNumber(to.value) ELSE Ok(Len(chapter))
    IN  IF f.kind # "ok" THEN f
        ELSE IF t.kind # "ok" THEN t
        ELSE IF f.value > t.value THEN Thrown("ValidationError")
        ELSE LET last == Min(t.value, Len(chapter))
                 count == IF last >= f.value THEN last - f.value + 1 ELSE 0
             IN  Ok([k \in 1..count |->
                        [verse |-> f.value + k - 1, text |-> At0(chapter, f.value + k - 2)]])

\* chapters of 0..MaxVerses verses with distinct texts
Chapters == {[v \in 1..n |-> VerseText(1, v)] : n \in 0..MaxVerses}

RECURSIVE ParamStringsUpTo(_)
ParamStringsUpTo(n) ==
    IF n = 0 THEN {<<>>}
    ELSE LET shorter == ParamStringsUpTo(n - 1)
         IN  shorter \cup {Append(s, c) : s \in {t \in shorter : Len(t) = n - 1},
                                          c \in ParamChars}

Params == {Omitted} \cup {Given(s) : s \in ParamStringsUpTo(MaxParamLen)}

InitFilter ==
    /\ pc = "idle"
    /\ op = "none"
    /\ translation = <<>>
    /\ bookInput = <<>>
    /\ found = NoResult
    /\ book = NoBook
    /\ chapterNum = 0
    /\ verseNum = 0
    /\ out = [kind |-> "none"]
    /\ \E c \in Chapters : args = [chapter |-> c]
    /\ ReaderIdle
    /\ CacheIdle

CallFilterVersesByRange ==
    /\ pc = "idle"
    /\ \E from \in Params, to \in Params :
        /\ args' = [chapter |-> args.chapter, from |-> from, to |-> to]
        /\ out' = filterVersesByRange(args.chapter, from, to)
    /\ pc' = "done"
    /\ op' = "filterVersesByRange"
    /\ UNCHANGED <<translation, bookInput, found, book, chapterNum, verseNum, readerVars, cacheVars>>

NextFilter == CallFilterVersesByRange

SpecFilter == InitFilter /\ [][NextFilter]_vars

(***************************** claims: filterVersesByRange *****************)
\* a parameter is usable when it is left out or empty, or spells a positive number
ValidParam(p) == ~Truthy(p) \/ validateNumber(p.value).kind = "ok"

\* the number a usable parameter stands for
RangeEnd(p, default) ==
    IF Truthy(p) THEN validateNumber(p.value).value ELSE default

FilterDone == pc = "done" /\ op = "filterVersesByRange"
FilterValid == ValidParam(args.from) /\ ValidParam(args.to)
FilterFrom == RangeEnd(args.from, 1)
FilterTo == RangeEnd(args.to, Len(args.chapter))

\* C11: with from and to left out or spelling positive numbers (from defaults
\* to 1, to defaults to the chapter length), filterVersesByRange throws
\* ValidationError when from > to, and otherwise returns exactly the verses v
\* with from <= v <= min(to, chapter length), ascending, each with the text
\* stored at index v-1.
C11_FilterVersesByRange ==
    (FilterDone /\ FilterValid) =>
        IF FilterFrom > FilterTo
        THEN out = Thrown("ValidationError")
        ELSE /\ out.kind = "ok"
             /\ LET last == Min(FilterTo, Len(args.chapter))
                    wanted == {v \in 1..Len(args.chapter) : FilterFrom <= v /\ v <= last}
                IN  /\ Len(out.value) = Cardinality(wanted)
                    /\ \A k \in 1..Len(out.value) :
                          /\ out.value[k].verse = FilterFrom + k - 1
                          /\ out.value[k].verse \in wanted
                          /\ out.value[k].text = args.chapter[out.value[k].verse]

\* a range given by both ends that is cut short by the chapter's length
C11_Witness ==
    /\ FilterDone /\ FilterValid
    /\ Truthy(args.from) /\ Truthy(args.to)
    /\ FilterFrom = 2 /\ FilterTo > Len(args.chapter)
    /\ out.kind = "ok" /\ Len(out.value) = 2

(***************************** getMultipleChapters *************************)
\* mutant: the check of from against to is missing
getMultipleChapters_noOrderCheck(b, fromChapter, toChapter) ==
    IF fromChapter < 1 \/ toChapter > Len(b.chapters) THEN Thrown("ValidationError")
    ELSE LET count == IF toChapter >= fromChapter THEN toChapter - fromChapter + 1 ELSE 0
         IN  Ok([k \in 1..count |->
                    formatChapterResponse(At0(b.chapters, fromChapter + k - 2),
                                          fromChapter + k - 1, b)])

getMultipleChapters(b, fromChapter, toChapter) ==
    IF fromChapter > toChapter THEN Thrown("ValidationError")
    ELSE IF fromChapter < 1 \/ toChapter > Len(b.chapters) THEN Thrown("ValidationError")
    ELSE Ok([k \in 1..(toChapter - fromChapter + 1) |->
                formatChapterResponse(At0(b.chapters, fromChapter + k - 2),
                                      fromChapter + k - 1, b)])

CallGetMultipleChapters ==
    /\ pc = "idle"
    /\ \E from \in (-1)..(Len(book.chapters) + 2), to \in (-1)..(Len(book.chapters) + 2) :
        /\ args' = [from |-> from, to |-> to]
        /\ out' = getMultipleChapters(book, from, to)
    /\ pc' = "done"
    /\ op' = "getMultipleChapters"
    /\ UNCHANGED <<translation, bookInput, found, book, chapterNum, verseNum, readerVars, cacheVars>>

NextChapters == CallGetMultipleChapters

SpecChapters == InitNav /\ [][NextChapters]_vars

(***************************** claims: getMultipleChapters *****************)
\* C12: getMultipleChapters throws ValidationError whenever from > to and
\* whenever from < 1 or to > the chapter count; otherwise it returns exactly
\* to-from+1 chapter responses numbered from, from+1, ..., to in that order.
C12_GetMultipleChapters ==
    (pc = "done" /\ op = "getMultipleChapters") =>
        IF args.from > args.to \/ args.from < 1 \/ args.to > NumChapters
        THEN out = Thrown("ValidationError")
        ELSE /\ out.kind = "ok"
             /\ Len(out.value) = args.to - args.from + 1
             /\ \A k \in 1..Len(out.value) :
                   /\ out.value[k].chapter.number = args.from + k - 1
                   /\ out.value[k].chapter.totalVerses = Len(book.chapters[args.from + k - 1])
                   /\ \A v \in 1..Len(out.value[k].verses) :
                         out.value[k].verses[v].text = VerseText(args.from + k - 1, v)

\* a range of two or more chapters that ends at the book's last chapter
C12_Witness ==
    /\ pc = "done" /\ op = "getMultipleChapters"
    /\ args.from >= 1 /\ args.from < args.to /\ args.to = NumChapters
    /\ out.kind = "ok" /\ Len(out.value) = args.to - args.from + 1

(***************************** parseVerseRange *****************************)
\* the characters verse expressions are drawn from
ExprChars == {"0", "1", "2", "-", ",", " ", "a"}

\* the positions of character c in s, ascending
PositionsOf(s, c) == SelectSeq([i \in 1..Len(s) |-> i], LAMBDA i : s[i] = c)

\* String.prototype.split on a one-character separator
split(s, sep) ==
    LET cuts == PositionsOf(s, sep)
        startOf(k) == IF k = 1 THEN 1 ELSE cuts[k - 1] + 1
        endOf(k) == IF k = Len(cuts) + 1 THEN Len(s) ELSE cuts[k] - 1
    IN  [k \in 1..(Len(cuts) + 1) |-> SubSeq(s, startOf(k), endOf(k))]

\* /^\d+$/
AllDigits(s) == s # <<>> /\ \A i \in 1..Len(s) : s[i] \in Digits

\* /^(\d+)-(\d+)$/ : the position of the dash, 0 when the part does not match
RangeDash(s) ==
    LET dashes == PositionsOf(s, "-")
    IN  IF /\ Len(dashes) = 1
           /\ AllDigits(SubSeq(s, 1, dashes[1] - 1))
           /\ AllDigits(SubSeq(s, dashes[1] + 1, Len(s)))
        THEN dashes[1] ELSE 0

\* mutant: a part that does not match is skipped instead of failing the parse
ParsePart_skipsBad(part) ==
    LET trimmed == trim(part)
        dash == RangeDash(trimmed)
    IN  IF dash # 0
        THEN LET from == DecimalValue(SubSeq(trimmed, 1, dash - 1))
                 to == DecimalValue(SubSeq(trimmed, dash + 1, Len(trimmed)))
             IN  IF from < 1 \/ to < from THEN [bad |-> FALSE, pushed |-> <<>>]
                 ELSE [bad |-> FALSE, pushed |-> [k \in 1..(to - from + 1) |-> from + k - 1]]
        ELSE IF ~AllDigits(trimmed) THEN [bad |-> FALSE, pushed |-> <<>>]
        ELSE LET verse == DecimalValue(trimmed)
             IN  IF verse < 1 THEN [bad |-> FALSE, pushed |-> <<>>]
                 ELSE [bad |-> FALSE, pushed |-> <<verse>>]

\* mutant: a single verse is stored one too high
ParsePart_singlePlusOne(part) ==
    LET trimmed == trim(part)
        dash == RangeDash(trimmed)
    IN  IF dash # 0
        THEN LET from == DecimalValue(SubSeq(trimmed, 1, dash - 1))
                 to == DecimalValue(SubSeq(trimmed, dash + 1, Len(trimmed)))
             IN  IF from < 1 \/ to < from THEN [bad |-> TRUE, pushed |-> <<>>]
                 ELSE [bad |-> FALSE, pushed |-> [k \in 1..(to - from + 1) |-> from + k - 1]]
        ELSE IF ~AllDigits(trimmed) THEN [bad |-> TRUE, pushed |-> <<>>]
        ELSE LET verse == DecimalValue(trimmed)
             IN  IF verse < 1 THEN [bad |-> TRUE, pushed |-> <<>>]
                 ELSE [bad |-> FALSE, pushed |-> <<verse + 1>>]

\* what one part of the expression contributes: ok with the numbers pushed,
\* or bad when the part makes the function return null
ParsePart(part) ==
    LET trimmed == trim(part)
        dash == RangeDash(trimmed)
    IN  IF dash # 0
        THEN LET from == DecimalValue(SubSeq(trimmed, 1, dash - 1))
                 to == DecimalValue(SubSeq(trimmed, dash + 1, Len(trimmed)))
             IN  IF from < 1 \/ to < from THEN [bad |-> TRUE, pushed |-> <<>>]
                 ELSE [bad |-> FALSE, pushed |-> [k \in 1..(to - from + 1) |-> from + k - 1]]
        ELSE IF ~AllDigits(trimmed) THEN [bad |-> TRUE, pushed |-> <<>>]
        ELSE LET verse == DecimalValue(trimmed)
             IN  IF verse < 1 THEN [bad |-> TRUE, pushed |-> <<>>]
                 ELSE [bad |-> FALSE, pushed |-> <<verse>>]

\* seqs[lo] \o ... \o seqs[hi]
RECURSIVE Flatten(_, _, _)
Flatten(seqs, lo, hi) ==
    IF lo > hi THEN <<>>
    ELSE IF lo = hi THEN seqs[lo]
    ELSE LET mid == (lo + hi) \div 2
         IN  Flatten(seqs, lo, mid) \o Flatten(seqs, mid + 1, hi)

\* the largest of nums[lo..hi]
RECURSIVE MaxOf(_, _, _)
MaxOf(nums, lo, hi) ==
    IF lo = hi THEN nums[lo]
    ELSE LET mid == (lo + hi) \div 2
             a == MaxOf(nums, lo, mid)
             b == MaxOf(nums, mid + 1, hi)
         IN  IF a > b THEN a ELSE b

\* mutant: duplicates are kept and nothing is sorted
UniqueSorted_asPushed(nums) == nums

\* Array.from(new Set(nums)).sort((a, b) => a - b) for positive integers
UniqueSorted(nums) ==
    IF nums = <<>> THEN <<>>
    ELSE LET members == {nums[i] : i \in 1..Len(nums)}
         IN  SelectSeq([i \in 1..MaxOf(nums, 1, Len(nums)) |-> i], LAMBDA i : i \in members)

parseVerseRange(versesParam) ==
    LET parts == split(versesParam, ",")
        parsed == [k \in 1..Len(parts) |-> ParsePart(parts[k])]
    IN  IF \E k \in 1..Len(parts) : parsed[k].bad THEN Null
        ELSE LET allVerses == Flatten([k \in 1..Len(parts) |-> parsed[k].pushed], 1, Len(parts))
             IN  IF Len(allVerses) = 0 THEN Null
                 ELSE [verses |-> UniqueSorted(allVerses)]

RECURSIVE ExprsUpTo(_)
ExprsUpTo(n) ==
    IF n = 0 THEN {<<>>}
    ELSE LET shorter == ExprsUpTo(n - 1)
         IN  shorter \cup {Append(s, c) : s \in {t \in shorter : Len(t) = n - 1},
                                          c \in ExprChars}

InitParse ==
    /\ pc = "idle"
    /\ op = "none"
    /\ translation = <<>>
    /\ bookInput = <<>>
    /\ found = NoResult
    /\ book = NoBook
    /\ chapterNum = 0
    /\ verseNum = 0
    /\ out = [kind |-> "none"]
    /\ args = <<>>
    /\ ReaderIdle
    /\ CacheIdle

CallParseVerseRange ==
    /\ pc = "idle"
    /\ \E expr \in ExprsUpTo(MaxExprLen) :
        /\ args' = [versesParam |-> expr]
        /\ out' = parseVerseRange(expr)
    /\ pc' = "done"
    /\ op' = "parseVerseRange"
    /\ UNCHANGED <<translation, bookInput, found, book, chapterNum, verseNum, readerVars, cacheVars>>

NextParse == CallParseVerseRange

SpecParse == InitParse /\ [][NextParse]_vars

(***************************** claims: parseVerseRange *********************)
ParseDone == pc = "done" /\ op = "parseVerseRange"

\* the comma-separated tokens of the expression, as written
ExprTokens == split(args.versesParam, ",")

IsPositiveInteger(tok) == AllDigits(tok) /\ DecimalValue(tok) >= 1

\* start-end with 1 <= start <= end
IsRangeToken(tok) ==
    \E d \in 1..Len(tok) :
        /\ tok[d] = "-"
        /\ AllDigits(SubSeq(tok, 1, d - 1))
        /\ AllDigits(SubSeq(tok, d + 1, Len(tok)))
        /\ 1 <= DecimalValue(SubSeq(tok, 1, d - 1))
        /\ DecimalValue(SubSeq(tok, 1, d - 1)) <= DecimalValue(SubSeq(tok, d + 1, Len(tok)))

GoodToken(tok) == IsPositiveInteger(tok) \/ IsRangeToken(tok)

\* the numbers a token names
TokenNumbers(tok) ==
    IF IsPositiveInteger(tok) THEN {DecimalValue(tok)}
    ELSE IF IsRangeToken(tok)
    THEN LET d == CHOOSE d \in 1..Len(tok) : tok[d] = "-"
         IN  DecimalValue(SubSeq(tok, 1, d - 1))..DecimalValue(SubSeq(tok, d + 1, Len(tok)))
    ELSE {}

\* C13: when parseVerseRange succeeds, its result is a non-empty, strictly
\* increasing list of integers >= 1 whose members are exactly the single
\* numbers and the inclusive ranges named by the comma-separated tokens.
C13_ParseUnion ==
    (ParseDone /\ out # Null) =>
        LET vs == out.verses
        IN  /\ Len(vs) >= 1
            /\ \A i \in 1..Len(vs) : vs[i] >= 1
            /\ \A i \in 1..(Len(vs) - 1) : vs[i] < vs[i + 1]
            /\ {vs[i] : i \in 1..Len(vs)} =
                   UNION {TokenNumbers(trim(ExprTokens[k])) : k \in 1..Len(ExprTokens)}

\* a single number and a range that overlap, written out of order
C13_Witness ==
    /\ ParseDone /\ out # Null
    /\ Len(ExprTokens) = 2
    /\ IsPositiveInteger(trim(ExprTokens[1]))
    /\ IsRangeToken(trim(ExprTokens[2]))
    /\ DecimalValue(trim(ExprTokens[1])) = 2
    /\ out.verses = <<1, 2>>

\* the original wording of C14, with the tokens taken as they are written:
\* null if and only if some token is neither a positive integer nor start-end
C14_NullIffBadToken_AsWritten ==
    ParseDone => (out = Null <=> \E k \in 1..Len(ExprTokens) : ~GoodToken(ExprTokens[k]))

\* C14: parseVerseRange returns null if and only if some comma-separated
\* token, once the white space around it is removed, is neither a positive
\* integer nor start-end with 1 <= start <= end; one bad token anywhere makes
\* the whole parse fail, and every other expression yields a list.
C14_NullIffBadToken ==
    ParseDone =>
        /\ out = Null <=> \E k \in 1..Len(ExprTokens) : ~GoodToken(trim(ExprTokens[k]))
        /\ out # Null => DOMAIN out = {"verses"}

\* a token written with white space around it is accepted, and the bad token
\* after it fails the whole parse
C14_Witness ==
    /\ ParseDone
    /\ Len(ExprTokens) = 2
    /\ ~GoodToken(ExprTokens[1]) /\ GoodToken(trim(ExprTokens[1]))
    /\ ~GoodToken(trim(ExprTokens[2]))
    /\ out = Null

\* Number.prototype.toString for a positive integer
RECURSIVE ToDecimal(_)
ToDecimal(n) ==
    IF n < 10 THEN <<DigitChars[n + 1]>>
    ELSE ToDecimal(n \div 10) \o <<DigitChars[(n % 10) + 1]>>

\* the numbers of a list written as a comma-separated string
CanonicalString(nums) ==
    Flatten([k \in 1..(2 * Len(nums) - 1) |->
                IF k % 2 = 1 THEN ToDecimal(nums[(k + 1) \div 2]) ELSE <<",">>],
            1, 2 * Len(nums) - 1)

\* C15: for every expression parseVerseRange accepts, parsing the
\* comma-separated string of the resulting numbers yields the same list.
C15_ParseRoundTrip ==
    (ParseDone /\ out # Null) => parseVerseRange(CanonicalString(out.verses)) = out

\* an accepted expression that is not its own canonical string: a range whose
\* result has a number of two digits
C15_Witness ==
    /\ ParseDone /\ out # Null
    /\ CanonicalString(out.verses) # args.versesParam
    /\ Len(out.verses) >= 10
    /\ parseVerseRange(CanonicalString(out.verses)) = out

(***************************** searchVerses ********************************)
formatVerseResponse(verseText, v, c, b) ==
    [ book |-> formatBookData(b),
      chapter |-> [number |-> c, name |-> ChapterReference(b, c)],
      verse |-> [number |-> v, text |-> verseText, reference |-> VerseReference(b, c, v)],
      pagination |-> getVersePagination(b, c, v) ]

\* the verses of a translation in the order the three nested loops meet them
ScanOrder(t) ==
    LET OfChapter(bi, ci) == [vi \in 1..Len(t[bi].chapters[ci]) |->
                                 [book |-> bi, chapter |-> ci, verse |-> vi]]
        OfBook(bi) == Flatten([ci \in 1..Len(t[bi].chapters) |-> OfChapter(bi, ci)],
                              1, Len(t[bi].chapters))
    IN  Flatten([bi \in 1..Len(t) |-> OfBook(bi)], 1, Len(t))

\* mutant: the scan never stops early
searchVerses_noLimit(t, query, limit) ==
    LET searchTerm == toLowerCase(query)
        hits == SelectSeq(ScanOrder(t), LAMBDA p :
                    includes(toLowerCase(t[p.book].chapters[p.chapter][p.verse]), searchTerm))
    IN  [k \in 1..Len(hits) |->
            formatVerseResponse(t[hits[k].book].chapters[hits[k].chapter][hits[k].verse],
                                hits[k].verse, hits[k].chapter, t[hits[k].book])]

\* the loops return right after the push that brings results.length to limit
\* or beyond, so a scan stops at its first match when limit is below 1
searchVerses(t, query, limit) ==
    LET searchTerm == toLowerCase(query)
        hits == SelectSeq(ScanOrder(t), LAMBDA p :
                    includes(toLowerCase(t[p.book].chapters[p.chapter][p.verse]), searchTerm))
        stopAt == IF limit >= 1 THEN limit ELSE 1
        kept == Min(Len(hits), stopAt)
    IN  [k \in 1..kept |->
            formatVerseResponse(t[hits[k].book].chapters[hits[k].chapter][hits[k].verse],
                                hits[k].verse, hits[k].chapter, t[hits[k].book])]

DefaultLimit == 20

\* GET /api/bible/{translation}/search?q={query}&limit={limit}
SearchEndpoint(t, query, limit) ==
    IF ~Truthy(query) THEN Thrown("MISSING_QUERY")
    ELSE LET searchLimit == IF Truthy(limit) THEN validateNumber(limit.value)
                            ELSE Ok(DefaultLimit)
         IN  IF searchLimit.kind # "ok" THEN searchLimit
             ELSE Ok([results |-> searchVerses(t, query.value, searchLimit.value),
                      limit |-> searchLimit.value])

SearchTexts == << <<"G", "e">>, <<"g">>, <<"n", "e">>, <<"e", "G", "e">>, <<"n">> >>

\* two books; the first has an empty chapter between two others
SearchData(r) ==
    LET text(b, c, v) == SearchTexts[((r + 3 * b + 2 * c + v) % Len(SearchTexts)) + 1]
    IN  << [code |-> <<"g", "n">>, name |-> <<"G", "e", "n">>,
            chapters |-> << <<text(1, 1, 1), text(1, 1, 2)>>, <<>>, <<text(1, 3, 1)>> >>],
           [code |-> <<"e", "n">>, name |-> <<"n", "e", "e">>,
            chapters |-> << <<text(2, 1, 1), text(2, 1, 2)>> >>] >>

SearchTranslations == {<<>>} \cup {SearchData(r) : r \in 0..2}

Queries == {Omitted} \cup {Given(q) : q \in StringsUpTo(MaxQueryLen)}
Limits == {Omitted} \cup {Given(l) : l \in ParamStringsUpTo(MaxLimitLen)}

InitSearch ==
    /\ pc = "idle"
    /\ op = "none"
    /\ translation \in SearchTranslations
    /\ bookInput = <<>>
    /\ found = NoResult
    /\ book = NoBook
    /\ chapterNum = 0
    /\ verseNum = 0
    /\ out = [kind |-> "none"]
    /\ args = <<>>
    /\ ReaderIdle
    /\ CacheIdle

CallSearch ==
    /\ pc = "idle"
    /\ \E query \in Queries, limit \in Limits :
        /\ args' = [query |-> query, limit |-> limit]
        /\ out' = SearchEndpoint(translation, query, limit)
    /\ pc' = "done"
    /\ op' = "search"
    /\ UNCHANGED <<translation, bookInput, found, book, chapterNum, verseNum, readerVars, cacheVars>>

NextSearch == CallSearch

SpecSearch == InitSearch /\ [][NextSearch]_vars

(***************************** claims: searchVerses ************************)
SearchDone == pc = "done" /\ op = "search" /\ out.kind = "ok"

\* a verse matches iff its lower-cased text contains the lower-cased query
Matches(p) ==
    includes(toLowerCase(translation[p.book].chapters[p.chapter][p.verse]),
             toLowerCase(args.query.value))

VersePositions ==
    {[book |-> bi, chapter |-> ci, verse |-> vi] :
        bi \in 1..Len(translation), ci \in 1..MaxChapters, vi \in 1..MaxVerses}

MatchPositions ==
    {p \in VersePositions :
        /\ p.chapter <= Len(translation[p.book].chapters)
        /\ p.verse <= Len(translation[p.book].chapters[p.chapter])
        /\ Matches(p)}

\* book, then chapter, then verse
Before(p, q) ==
    \/ p.book < q.book
    \/ p.book = q.book /\ p.chapter < q.chapter
    \/ p.book = q.book /\ p.chapter = q.chapter /\ p.verse < q.verse

\* where a result lies in the translation
PositionOf(r) ==
    [book |-> CHOOSE bi \in 1..Len(translation) : translation[bi].code = r.book.code,
     chapter |-> r.chapter.number,
     verse |-> r.verse.number]

StartsWith(s, prefix) == Len(prefix) <= Len(s) /\ SubSeq(s, 1, Len(prefix)) = prefix

\* the elements of a list without repetitions, each at its first occurrence
\* ([...new Set(list)])
Distinct(list) ==
    LET firsts == SelectSeq([i \in 1..Len(list) |-> i],
                            LAMBDA i : \A j \in 1..(i - 1) : list[j] # list[i])
    IN  [k \in 1..Len(firsts) |-> list[firsts[k]]]

\* BOOK_ABBREVIATIONS[englishName] = [bookCode, bookCode.toLowerCase()], the
\* entry assigned last winning
BOOK_ABBREVIATIONS ==
    LET names == {toLowerCase(scriptureMap[i].en) : i \in 1..Len(scriptureMap)}
        last(n) == CHOOSE i \in 1..Len(scriptureMap) :
                       /\ toLowerCase(scriptureMap[i].en) = n
                       /\ \A j \in (i + 1)..Len(scriptureMap) : toLowerCase(scriptureMap[j].en) # n
    IN  [n \in names |-> <<scriptureMap[last(n)].code, toLowerCase(scriptureMap[last(n)].code)>>]

\* spreading an inherited member (a function or a plain object) throws TypeError
getBookAliases(bookName) ==
    LET normalized == toLowerCase(bookName)
        scriptureEntry == Find([i \in 1..Len(scriptureMap) |->
                                   \/ toLowerCase(scriptureMap[i].en) = normalized
                                   \/ toLowerCase(scriptureMap[i].pt) = normalized])
    IN  IF HasProperty(BOOK_ABBREVIATIONS, normalized)
        THEN IF normalized \in DOMAIN BOOK_ABBREVIATIONS
             THEN Ok(<<normalized>> \o BOOK_ABBREVIATIONS[normalized])
             ELSE Thrown("TypeError")
        ELSE IF scriptureEntry # 0
        THEN LET englishName == toLowerCase(scriptureMap[scriptureEntry].en)
                 abbreviations == IF Falsy(GetProperty(BOOK_ABBREVIATIONS, englishName))
                                  THEN <<>> ELSE BOOK_ABBREVIATIONS[englishName]
             IN  Ok(<<englishName, scriptureMap[scriptureEntry].code>> \o abbreviations)
        ELSE Ok(<<normalized>>)

searchBooks(query) ==
    LET queryLower == trim(toLowerCase(query))
        codeMatches(i) ==
            \/ StartsWith(toLowerCase(scriptureMap[i].code), queryLower)
            \/ toLowerCase(scriptureMap[i].code) = queryLower
        nameMatches(i) ==
            \/ StartsWith(toLowerCase(scriptureMap[i].en), queryLower)
            \/ StartsWith(toLowerCase(scriptureMap[i].pt), queryLower)
        abbreviations(i) ==
            IF Falsy(GetProperty(BOOK_ABBREVIATIONS, toLowerCase(scriptureMap[i].en)))
            THEN <<>> ELSE BOOK_ABBREVIATIONS[toLowerCase(scriptureMap[i].en)]
        abbreviationMatches(i) ==
            \E k \in 1..Len(abbreviations(i)) :
                \/ StartsWith(toLowerCase(abbreviations(i)[k]), queryLower)
                \/ toLowerCase(abbreviations(i)[k]) = queryLower
        hits == SelectSeq([i \in 1..Len(scriptureMap) |-> i], LAMBDA i :
                    codeMatches(i) \/ nameMatches(i) \/ abbreviationMatches(i))
    IN  Distinct([k \in 1..Len(hits) |-> toLowerCase(scriptureMap[hits[k]].en)])

(***************************** alias table *********************************)
\* BOOK_ABBREVIATIONS of lib/api/book-abbreviations.ts, in the order of
\* Object.entries; accented letters are written with their accent after the
\* letter (e^ for e-circumflex, c, for c-cedilla)
BOOK_ABBREVIATIONS_table ==
    <<
      [name |-> <<"g", "e", "n", "e", "s", "i", "s">>,
       abbreviations |-> <<<<"g", "n">>, <<"g", "e", "n">>, <<"g", "e">>, <<"g", "e^", "n", "e", "s", "i", "s">>>>],
      [name |-> <<"e", "x", "o", "d", "u", "s">>,
       abbreviations |-> <<<<"e", "x">>, <<"e", "x", "o">>, <<"e^", "x", "o", "d", "o">>>>],
      [name |-> <<"l", "e", "v", "i", "t", "i", "c", "u", "s">>,
       abbreviations |-> <<<<"l", "v">>, <<"l", "e", "v">>, <<"l", "e">>, <<"l", "e", "v", "i'", "t", "i", "c", "o">>>>],
      [name |-> <<"n", "u", "m", "b", "e", "r", "s">>,
       abbreviations |-> <<<<"n", "m">>, <<"n", "u", "m">>, <<"n", "u">>, <<"n", "u'", "m", "e", "r", "o", "s">>>>],
      [name |-> <<"d", "e", "u", "t", "e", "r", "o", "n", "o", "m", "y">>,
       abbreviations |-> <<<<"d", "t">>, <<"d", "e", "u">>, <<"d", "e">>, <<"d", "e", "u", "t", "e", "r", "o", "n", "o^", "m", "i", "o">>>>],
      [name |-> <<"j", "o", "s", "h", "u", "a">>,
       abbreviations |-> <<<<"j", "s">>, <<"j", "o", "s">>, <<"j", "o">>, <<"j", "o", "s", "u", "e'">>>>],
      [name |-> <<"j", "u", "d", "g", "e", "s">>,
       abbreviations |-> <<<<"j", "z">>, <<"j", "d", "g">>, <<"j", "g">>, <<"j", "u", "i'", "z", "e", "s">>>>],
      [name |-> <<"r", "u", "t", "h">>,
       abbreviations |-> <<<<"r", "t">>, <<"r", "u", "t">>, <<"r", "u">>, <<"r", "u", "t", "e">>>>],
      [name |-> <<"1", "s", "a", "m", "u", "e", "l">>,
       abbreviations |-> <<<<"1", "s", "m">>, <<"1", "s", "a">>, <<"1", "s">>, <<"1", "s", "a", "m", "u", "e", "l">>>>],
      [name |-> <<"2", "s", "a", "m", "u", "e", "l">>,
       abbreviations |-> <<<<"2", "s", "m">>, <<"2", "s", "a">>, <<"2", "s">>, <<"2", "s", "a", "m", "u", "e", "l">>>>],
      [name |-> <<"1", "k", "i", "n", "g", "s">>,
       abbreviations |-> <<<<"1", "r", "s">>, <<"1", "k", "i">>, <<"1", "k">>, <<"1", "r", "e", "i", "s">>>>],
      [name |-> <<"2", "k", "i", "n", "g", "s">>,
       abbreviations |-> <<<<"2", "r", "s">>, <<"2", "k", "i">>, <<"2", "k">>, <<"2", "r", "e", "i", "s">>>>],
      [name |-> <<"1", "c", "h", "r", "o", "n", "i", "c", "l", "e", "s">>,
       abbreviations |-> <<<<"1", "c", "r">>, <<"1", "c", "h">>, <<"1", "c">>, <<"1", "c", "r", "o^", "n", "i", "c", "a", "s">>>>],
      [name |-> <<"2", "c", "h", "r", "o", "n", "i", "c", "l", "e", "s">>,
       abbreviations |-> <<<<"2", "c", "r">>, <<"2", "c", "h">>, <<"2", "c">>, <<"2", "c", "r", "o^", "n", "i", "c", "a", "s">>>>],
      [name |-> <<"e", "z", "r", "a">>,
       abbreviations |-> <<<<"e", "d">>, <<"e", "z", "r">>, <<"e", "z">>, <<"e", "s", "d", "r", "a", "s">>>>],
      [name |-> <<"n", "e", "h", "e", "m", "i", "a", "h">>,
       abbreviations |-> <<<<"n", "e">>, <<"n", "e", "h">>, <<"n", "e", "e", "m", "i", "a", "s">>>>],
      [name |-> <<"e", "s", "t", "h", "e", "r">>,
       abbreviations |-> <<<<"e", "t">>, <<"e", "s", "t">>, <<"e", "s">>, <<"e", "s", "t", "e", "r">>>>],
      [name |-> <<"j", "o", "b">>,
       abbreviations |-> <<<<"j", "o'">>, <<"j", "o", "b">>, <<"j", "b">>>>],
      [name |-> <<"p", "s", "a", "l", "m", "s">>,
       abbreviations |-> <<<<"s", "l">>, <<"p", "s", "a">>, <<"p", "s">>, <<"s", "a", "l", "m", "o", "s">>>>],
      [name |-> <<"p", "r", "o", "v", "e", "r", "b", "s">>,
       abbreviations |-> <<<<"p", "v">>, <<"p", "r", "o">>, <<"p", "r">>, <<"p", "r", "o", "v", "e'", "r", "b", "i", "o", "s">>>>],
      [name |-> <<"e", "c", "c", "l", "e", "s", "i", "a", "s", "t", "e", "s">>,
       abbreviations |-> <<<<"e", "c">>, <<"e", "c", "c">>, <<"e", "c", "l", "e", "s", "i", "a", "s", "t", "e", "s">>>>],
      [name |-> <<"s", "o", "n", "g">>,
       abbreviations |-> <<<<"c", "t">>, <<"s", "n", "g">>, <<"s", "s">>, <<"c", "a", "n", "t", "a", "r", "e", "s">>, <<"c", "a^", "n", "t", "i", "c", "o", "s">>>>],
      [name |-> <<"i", "s", "a", "i", "a", "h">>,
       abbreviations |-> <<<<"i", "s">>, <<"i", "s", "a">>, <<"i", "s", "a", "i'", "a", "s">>>>],
      [name |-> <<"j", "e", "r", "e", "m", "i", "a", "h">>,
       abbreviations |-> <<<<"j", "r">>, <<"j", "e", "r">>, <<"j", "e">>, <<"j", "e", "r", "e", "m", "i", "a", "s">>>>],
      [name |-> <<"l", "a", "m", "e", "n", "t", "a", "t", "i", "o", "n", "s">>,
       abbreviations |-> <<<<"l", "m">>, <<"l", "a", "m">>, <<"l", "a">>, <<"l", "a", "m", "e", "n", "t", "a", "c,", "o~", "e", "s">>>>],
      [name |-> <<"e", "z", "e", "k", "i", "e", "l">>,
       abbreviations |-> <<<<"e", "z">>, <<"e", "z", "e">>, <<"e", "z", "e", "q", "u", "i", "e", "l">>>>],
      [name |-> <<"d", "a", "n", "i", "e", "l">>,
       abbreviations |-> <<<<"d", "n">>, <<"d", "a", "n">>, <<"d", "a">>, <<"d", "a", "n", "i", "e", "l">>>>],
      [name |-> <<"h", "o", "s", "e", "a">>,
       abbreviations |-> <<<<"o", "s">>, <<"h", "o", "s">>, <<"h", "o">>, <<"o", "s", "e'", "i", "a", "s">>>>],
      [name |-> <<"j", "o", "e", "l">>,
       abbreviations |-> <<<<"j", "l">>, <<"j", "o", "e">>, <<"j", "o", "e", "l">>>>],
      [name |-> <<"a", "m", "o", "s">>,
       abbreviations |-> <<<<"a", "m">>, <<"a", "m", "o">>, <<"a", "m", "o'", "s">>>>],
      [name |-> <<"o", "b", "a", "d", "i", "a", "h">>,
       abbreviations |-> <<<<"o", "b">>, <<"o", "b", "a">>, <<"o", "b", "a", "d", "i", "a", "s">>>>],
      [name |-> <<"j", "o", "n", "a", "h">>,
       abbreviations |-> <<<<"j", "n">>, <<"j", "o", "n">>, <<"j", "o", "n", "a", "s">>>>],
      [name |-> <<"m", "i", "c", "a", "h">>,
       abbreviations |-> <<<<"m", "q">>, <<"m", "i", "c">>, <<"m", "i">>, <<"m", "i", "q", "u", "e'", "i", "a", "s">>>>],
      [name |-> <<"n", "a", "h", "u", "m">>,
       abbreviations |-> <<<<"n", "a">>, <<"n", "a", "h">>, <<"n", "a", "u", "m">>>>],
      [name |-> <<"h", "a", "b", "a", "k", "k", "u", "k">>,
       abbreviations |-> <<<<"h", "c">>, <<"h", "a", "b">>, <<"h", "a">>, <<"h", "a", "b", "a", "c", "u", "q", "u", "e">>>>],
      [name |-> <<"z", "e", "p", "h", "a", "n", "i", "a", "h">>,
       abbreviations |-> <<<<"s", "f">>, <<"z", "e", "p">>, <<"z", "e">>, <<"s", "o", "f", "o", "n", "i", "a", "s">>>>],
      [name |-> <<"h", "a", "g", "g", "a", "i">>,
       abbreviations |-> <<<<"a", "g">>, <<"h", "a", "g">>, <<"h", "g">>, <<"a", "g", "e", "u">>>>],
      [name |-> <<"z", "e", "c", "h", "a", "r", "i", "a", "h">>,
       abbreviations |-> <<<<"z", "c">>, <<"z", "e", "c">>, <<"z", "a", "c", "a", "r", "i", "a", "s">>>>],
      [name |-> <<"m", "a", "l", "a", "c", "h", "i">>,
       abbreviations |-> <<<<"m", "l">>, <<"m", "a", "l">>, <<"m", "a">>, <<"m", "a", "l", "a", "q", "u", "i", "a", "s">>>>],
      [name |-> <<"m", "a", "t", "t", "h", "e", "w">>,
       abbreviations |-> <<<<"m", "t">>, <<"m", "a", "t">>, <<"m", "a">>, <<"m", "a", "t", "e", "u", "s">>>>],
      [name |-> <<"m", "a", "r", "k">>,
       abbreviations |-> <<<<"m", "c">>, <<"m", "r", "k">>, <<"m", "k">>, <<"m", "a", "r", "c", "o", "s">>>>],
      [name |-> <<"l", "u", "k", "e">>,
       abbreviations |-> <<<<"l", "c">>, <<"l", "u", "k">>, <<"l", "u">>, <<"l", "u", "c", "a", "s">>>>],
      [name |-> <<"j", "o", "h", "n">>,
       abbreviations |-> <<<<"j", "o">>, <<"j", "o", "h">>, <<"j", "n">>, <<"j", "o", "a~", "o">>>>],
      [name |-> <<"a", "c", "t", "s">>,
       abbreviations |-> <<<<"a", "t">>, <<"a", "c", "t">>, <<"a", "c">>, <<"a", "t", "o", "s">>>>],
      [name |-> <<"r", "o", "m", "a", "n", "s">>,
       abbreviations |-> <<<<"r", "m">>, <<"r", "o", "m">>, <<"r", "o">>, <<"r", "o", "m", "a", "n", "o", "s">>>>],
      [name |-> <<"1", "c", "o", "r", "i", "n", "t", "h", "i", "a", "n", "s">>,
       abbreviations |-> <<<<"1", "c", "o">>, <<"1", "c", "o", "r">>, <<"1", "c">>, <<"1", "c", "o", "r", "i'", "n", "t", "i", "o", "s">>>>],
      [name |-> <<"2", "c", "o", "r", "i", "n", "t", "h", "i", "a", "n", "s">>,
       abbreviations |-> <<<<"2", "c", "o">>, <<"2", "c", "o", "r">>, <<"2", "c">>, <<"2", "c", "o", "r", "i'", "n", "t", "i", "o", "s">>>>],
      [name |-> <<"g", "a", "l", "a", "t", "i", "a", "n", "s">>,
       abbreviations |-> <<<<"g", "l">>, <<"g", "a", "l">>, <<"g", "a">>, <<"g", "a'", "l", "a", "t", "a", "s">>>>],
      [name |-> <<"e", "p", "h", "e", "s", "i", "a", "n", "s">>,
       abbreviations |-> <<<<"e", "f">>, <<"e", "p", "h">>, <<"e", "p">>, <<"e", "f", "e'", "s", "i", "o", "s">>>>],
      [name |-> <<"p", "h", "i", "l", "i", "p", "p", "i", "a", "n", "s">>,
       abbreviations |-> <<<<"f", "p">>, <<"p", "h", "i">>, <<"p", "h">>, <<"f", "i", "l", "i", "p", "e", "n", "s", "e", "s">>>>],
      [name |-> <<"c", "o", "l", "o", "s", "s", "i", "a", "n", "s">>,
       abbreviations |-> <<<<"c", "l">>, <<"c", "o", "l">>, <<"c", "o">>, <<"c", "o", "l", "o", "s", "s", "e", "n", "s", "e", "s">>>>],
      [name |-> <<"1", "t", "h", "e", "s", "s", "a", "l", "o", "n", "i", "a", "n", "s">>,
       abbreviations |-> <<<<"1", "t", "s">>, <<"1", "t", "h">>, <<"1", "t">>, <<"1", "t", "e", "s", "s", "a", "l", "o", "n", "i", "c", "e", "n", "s", "e", "s">>>>],
      [name |-> <<"2", "t", "h", "e", "s", "s", "a", "l", "o", "n", "i", "a", "n", "s">>,
       abbreviations |-> <<<<"2", "t", "s">>, <<"2", "t", "h">>, <<"2", "t">>, <<"2", "t", "e", "s", "s", "a", "l", "o", "n", "i", "c", "e", "n", "s", "e", "s">>>>],
      [name |-> <<"1", "t", "i", "m", "o", "t", "h", "y">>,
       abbreviations |-> <<<<"1", "t", "m">>, <<"1", "t", "i">>, <<"1", "t", "i", "m", "o'", "t", "e", "o">>>>],
      [name |-> <<"2", "t", "i", "m", "o", "t", "h", "y">>,
       abbreviations |-> <<<<"2", "t", "m">>, <<"2", "t", "i">>, <<"2", "t", "i", "m", "o'", "t", "e", "o">>>>],
      [name |-> <<"t", "i", "t", "u", "s">>,
       abbreviations |-> <<<<"t", "t">>, <<"t", "i", "t">>, <<"t", "i">>, <<"t", "i", "t", "o">>>>],
      [name |-> <<"p", "h", "i", "l", "e", "m", "o", "n">>,
       abbreviations |-> <<<<"f", "m">>, <<"p", "h", "m">>, <<"p", "m">>, <<"f", "i", "l", "e", "m", "o", "m">>>>],
      [name |-> <<"h", "e", "b", "r", "e", "w", "s">>,
       abbreviations |-> <<<<"h", "b">>, <<"h", "e", "b">>, <<"h", "e">>, <<"h", "e", "b", "r", "e", "u", "s">>>>],
      [name |-> <<"j", "a", "m", "e", "s">>,
       abbreviations |-> <<<<"t", "g">>, <<"j", "a", "m">>, <<"j", "a">>, <<"t", "i", "a", "g", "o">>>>],
      [name |-> <<"1", "p", "e", "t", "e", "r">>,
       abbreviations |-> <<<<"1", "p", "e">>, <<"1", "p", "t">>, <<"1", "p">>, <<"1", "p", "e", "d", "r", "o">>>>],
      [name |-> <<"2", "p", "e", "t", "e", "r">>,
       abbreviations |-> <<<<"2", "p", "e">>, <<"2", "p", "t">>, <<"2", "p">>, <<"2", "p", "e", "d", "r", "o">>>>],
      [name |-> <<"1", "j", "o", "h", "n">>,
       abbreviations |-> <<<<"1", "j", "o">>, <<"1", "j", "n">>, <<"1", "j">>, <<"1", "j", "o", "a~", "o">>>>],
      [name |-> <<"2", "j", "o", "h", "n">>,
       abbreviations |-> <<<<"2", "j", "o">>, <<"2", "j", "n">>, <<"2", "j">>, <<"2", "j", "o", "a~", "o">>>>],
      [name |-> <<"3", "j", "o", "h", "n">>,
       abbreviations |-> <<<<"3", "j", "o">>, <<"3", "j", "n">>, <<"3", "j">>, <<"3", "j", "o", "a~", "o">>>>],
      [name |-> <<"j", "u", "d", "e">>,
       abbreviations |-> <<<<"j", "d">>, <<"j", "u", "d">>, <<"j", "u">>, <<"j", "u", "d", "a", "s">>>>],
      [name |-> <<"r", "e", "v", "e", "l", "a", "t", "i", "o", "n">>,
       abbreviations |-> <<<<"a", "p">>, <<"r", "e", "v">>, <<"r", "e">>, <<"a", "p", "o", "c", "a", "l", "i", "p", "s", "e">>>>],
      [name |-> <<"t", "o", "b", "i", "t">>,
       abbreviations |-> <<<<"t", "b">>, <<"t", "o", "b">>, <<"t", "o">>, <<"t", "o", "b", "i", "a", "s">>>>],
      [name |-> <<"j", "u", "d", "i", "t", "h">>,
       abbreviations |-> <<<<"j", "t">>, <<"j", "d", "t">>, <<"j", "d">>, <<"j", "u", "d", "i", "t", "e">>>>],
      [name |-> <<"w", "i", "s", "d", "o", "m">>,
       abbreviations |-> <<<<"s", "b">>, <<"w", "i", "s">>, <<"w", "i">>, <<"s", "a", "b", "e", "d", "o", "r", "i", "a">>>>],
      [name |-> <<"s", "i", "r", "a", "c", "h">>,
       abbreviations |-> <<<<"s", "r">>, <<"s", "i", "r">>, <<"s", "i">>, <<"e", "c", "l", "e", "s", "i", "a'", "s", "t", "i", "c", "o">>>>],
      [name |-> <<"b", "a", "r", "u", "c", "h">>,
       abbreviations |-> <<<<"b", "r">>, <<"b", "a", "r">>, <<"b", "a">>, <<"b", "a", "r", "u", "q", "u", "e">>>>],
      [name |-> <<"1", "m", "a", "c", "c", "a", "b", "e", "e", "s">>,
       abbreviations |-> <<<<"1", "m", "c">>, <<"1", "m", "a">>, <<"1", "m">>, <<"1", "m", "a", "c", "a", "b", "e", "u", "s">>>>],
      [name |-> <<"2", "m", "a", "c", "c", "a", "b", "e", "e", "s">>,
       abbreviations |-> <<<<"2", "m", "c">>, <<"2", "m", "a">>, <<"2", "m">>, <<"2", "m", "a", "c", "a", "b", "e", "u", "s">>>>]
    >>

\* the reverse mapping as the list of assignments made while it is built
RECURSIVE TableAssignments(_)
TableAssignments(i) ==
    IF i = 0 THEN <<>>
    ELSE LET row == BOOK_ABBREVIATIONS_table[i]
         IN  TableAssignments(i - 1)
                \o <<[key |-> toLowerCase(row.name), value |-> toLowerCase(row.name)]>>
                \o [k \in 1..Len(row.abbreviations) |->
                       [key |-> toLowerCase(row.abbreviations[k]), value |-> toLowerCase(row.name)]]

\* ABBREVIATION_TO_BOOK: for each key the value assigned last
ABBREVIATION_TO_BOOK_table ==
    LET assigned == TableAssignments(Len(BOOK_ABBREVIATIONS_table))
        keys == {assigned[i].key : i \in 1..Len(assigned)}
        last(k) == CHOOSE i \in 1..Len(assigned) :
                       /\ assigned[i].key = k
                       /\ \A j \in (i + 1)..Len(assigned) : assigned[j].key # k
    IN  [k \in keys |-> assigned[last(k)].value]

normalizeBookName_table(input) ==
    LET normalized == trim(toLowerCase(input))
        value == GetProperty(ABBREVIATION_TO_BOOK_table, normalized)
    IN  IF Falsy(value) THEN normalized ELSE value

isValidBookName_table(input) ==
    HasProperty(ABBREVIATION_TO_BOOK_table, trim(toLowerCase(input)))

\* BOOK_ABBREVIATIONS as an object: name -> abbreviations
TableByName ==
    [n \in {BOOK_ABBREVIATIONS_table[i].name : i \in 1..Len(BOOK_ABBREVIATIONS_table)} |->
        BOOK_ABBREVIATIONS_table[
            CHOOSE i \in 1..Len(BOOK_ABBREVIATIONS_table) : BOOK_ABBREVIATIONS_table[i].name = n
        ].abbreviations]

getBookAliases_table(bookName) ==
    LET normalized == toLowerCase(bookName)
    IN  IF HasProperty(TableByName, normalized)
        THEN IF normalized \in DOMAIN TableByName
             THEN Ok(<<normalized>> \o TableByName[normalized])
             ELSE Thrown("TypeError")
        ELSE Ok(<<normalized>>)

\* the table with bookName.toLowerCase() and abbrev.toLowerCase() applied
LoweredTable ==
    [i \in 1..Len(BOOK_ABBREVIATIONS_table) |->
        [name |-> toLowerCase(BOOK_ABBREVIATIONS_table[i].name),
         abbreviations |-> [k \in 1..Len(BOOK_ABBREVIATIONS_table[i].abbreviations) |->
                               toLowerCase(BOOK_ABBREVIATIONS_table[i].abbreviations[k])]]]

\* mutant: only the names are searched, not the abbreviations
searchBooks_table_namesOnly(query) ==
    LET queryLower == trim(toLowerCase(query))
        hits == SelectSeq([i \in 1..Len(BOOK_ABBREVIATIONS_table) |-> i], LAMBDA i :
                    StartsWith(LoweredTable[i].name, queryLower))
    IN  [k \in 1..Len(hits) |-> BOOK_ABBREVIATIONS_table[hits[k]].name]

searchBooks_table(query) ==
    LET queryLower == trim(toLowerCase(query))
        nameMatches(i) == StartsWith(LoweredTable[i].name, queryLower)
        abbreviationMatches(i) ==
            \E k \in 1..Len(LoweredTable[i].abbreviations) :
                \/ StartsWith(LoweredTable[i].abbreviations[k], queryLower)
                \/ LoweredTable[i].abbreviations[k] = queryLower
        hits == SelectSeq([i \in 1..Len(BOOK_ABBREVIATIONS_table) |-> i], LAMBDA i :
                    nameMatches(i) \/ abbreviationMatches(i))
    IN  [k \in 1..Len(hits) |-> BOOK_ABBREVIATIONS_table[hits[k]].name]

(***************************** alias calls *********************************)
\* String.prototype.toUpperCase, used to spell inputs in capitals
UpperChar(c) ==
    IF \E i \in 1..Len(LowerChars) : LowerChars[i] = c
    THEN UpperChars[CHOOSE i \in 1..Len(LowerChars) : LowerChars[i] = c]
    ELSE c

toUpperCase(s) == [i \in 1..Len(s) |-> UpperChar(s[i])]

\* every string the two tables register, as written
RegisteredStrings ==
    UNION {{BOOK_ABBREVIATIONS_table[i].name}
              \cup {BOOK_ABBREVIATIONS_table[i].abbreviations[k] :
                        k \in 1..Len(BOOK_ABBREVIATIONS_table[i].abbreviations)} :
           i \in 1..Len(BOOK_ABBREVIATIONS_table)}
    \cup UNION {{scriptureMap[i].code, scriptureMap[i].en, scriptureMap[i].pt} :
                i \in 1..Len(scriptureMap)}

\* strings no table registers
OtherStrings ==
    ObjectPrototypeKeys \cup {<<"x", "y", "z">>, <<"g", "e", "n", "e", "s", "i", "s", "x">>}

Prefixes(S) == UNION {{SubSeq(x, 1, k) : k \in 0..Len(x)} : x \in S}

\* the inputs: registered and other strings and their prefixes, as written, in
\* capitals, and with white space around them
AliasInputs ==
    LET base == Prefixes(RegisteredStrings \cup OtherStrings)
    IN  base \cup {toUpperCase(x) : x \in base}
             \cup {<<" ">> \o x \o <<" ">> : x \in base}
             \cup {<<" ">> \o toUpperCase(x) : x \in base}

InitAlias ==
    /\ pc = "idle"
    /\ op = "none"
    /\ translation = <<>>
    /\ bookInput = <<>>
    /\ found = NoResult
    /\ book = NoBook
    /\ chapterNum = 0
    /\ verseNum = 0
    /\ out = [kind |-> "none"]
    /\ args = <<>>
    /\ ReaderIdle
    /\ CacheIdle

CallNormalizeBookName ==
    /\ pc = "idle"
    /\ \E input \in AliasInputs :
        /\ bookInput' = input
        /\ out' = Ok(normalizeBookName(input))
    /\ pc' = "done"
    /\ op' = "normalizeBookName"
    /\ UNCHANGED <<args, translation, found, book, chapterNum, verseNum, readerVars, cacheVars>>

CallNormalizeBookName_table ==
    /\ pc = "idle"
    /\ \E input \in AliasInputs :
        /\ bookInput' = input
        /\ out' = Ok(normalizeBookName_table(input))
    /\ pc' = "done"
    /\ op' = "normalizeBookName_table"
    /\ UNCHANGED <<args, translation, found, book, chapterNum, verseNum, readerVars, cacheVars>>

CallIsValidBookName ==
    /\ pc = "idle"
    /\ \E input \in AliasInputs :
        /\ bookInput' = input
        /\ out' = Ok(isValidBookName(input))
    /\ pc' = "done"
    /\ op' = "isValidBookName"
    /\ UNCHANGED <<args, translation, found, book, chapterNum, verseNum, readerVars, cacheVars>>

CallIsValidBookName_table ==
    /\ pc = "idle"
    /\ \E input \in AliasInputs :
        /\ bookInput' = input
        /\ out' = Ok(isValidBookName_table(input))
    /\ pc' = "done"
    /\ op' = "isValidBookName_table"
    /\ UNCHANGED <<args, translation, found, book, chapterNum, verseNum, readerVars, cacheVars>>

CallGetBookAliases ==
    /\ pc = "idle"
    /\ \E input \in AliasInputs :
        /\ bookInput' = input
        /\ out' = getBookAliases(input)
    /\ pc' = "done"
    /\ op' = "getBookAliases"
    /\ UNCHANGED <<args, translation, found, book, chapterNum, verseNum, readerVars, cacheVars>>

CallGetBookAliases_table ==
    /\ pc = "idle"
    /\ \E input \in AliasInputs :
        /\ bookInput' = input
        /\ out' = getBookAliases_table(input)
    /\ pc' = "done"
    /\ op' = "getBookAliases_table"
    /\ UNCHANGED <<args, translation, found, book, chapterNum, verseNum, readerVars, cacheVars>>

CallSearchBooks ==
    /\ pc = "idle"
    /\ \E input \in AliasInputs :
        /\ bookInput' = input
        /\ out' = Ok(searchBooks(input))
    /\ pc' = "done"
    /\ op' = "searchBooks"
    /\ UNCHANGED <<args, translation, found, book, chapterNum, verseNum, readerVars, cacheVars>>

CallSearchBooks_table ==
    /\ pc = "idle"
    /\ \E input \in AliasInputs :
        /\ bookInput' = input
        /\ out' = Ok(searchBooks_table(input))
    /\ pc' = "done"
    /\ op' = "searchBooks_table"
    /\ UNCHANGED <<args, translation, found, book, chapterNum, verseNum, readerVars, cacheVars>>

NextAlias ==
    \/ CallNormalizeBookName
    \/ CallNormalizeBookName_table
    \/ CallIsValidBookName
    \/ CallIsValidBookName_table
    \/ CallGetBookAliases
    \/ CallGetBookAliases_table
    \/ CallSearchBooks
    \/ CallSearchBooks_table

SpecAlias == InitAlias /\ [][NextAlias]_vars

(***************************** claims: aliases *****************************)
AliasDone(name) == pc = "done" /\ op = name

\* the key the lookups use
InputKey == trim(toLowerCase(bookInput))

\* the aliases the table registers for row i: the name and each abbreviation
TableAliases(i) ==
    {LoweredTable[i].name}
        \cup {LoweredTable[i].abbreviations[k] : k \in 1..Len(LoweredTable[i].abbreviations)}

\* the aliases the registry registers for entry i: code and both names
RegistryAliases(i) ==
    {toLowerCase(scriptureMap[i].code), toLowerCase(scriptureMap[i].en),
     toLowerCase(scriptureMap[i].pt)}

\* C17: for every book b of the alias table and every alias a registered for
\* b, normalizeBookName(a) equals normalizeBookName(b's name): every
\* registered alias resolves to the book it was registered for.
C17_AliasResolves ==
    /\ AliasDone("normalizeBookName_table") =>
          \A i \in 1..Len(BOOK_ABBREVIATIONS_table) :
              bookInput \in TableAliases(i) =>
                  out.value = normalizeBookName_table(BOOK_ABBREVIATIONS_table[i].name)
    /\ AliasDone("normalizeBookName") =>
          \A i \in 1..Len(scriptureMap) :
              bookInput \in RegistryAliases(i) =>
                  out.value = normalizeBookName(scriptureMap[i].en)

\* the inputs that differ from the input only in letter case or in white
\* space around it
Respelled ==
    {bookInput, toUpperCase(bookInput), toLowerCase(bookInput),
     <<" ">> \o bookInput, bookInput \o <<" ", " ">>, InputKey}

\* C18: normalizeBookName returns the registered name when the lower-cased,
\* trimmed input is a registered key and the lower-cased, trimmed input itself
\* otherwise; inputs differing only in case or surrounding white space
\* normalize to the same value and isValidBookName agrees on them.
C18_NormalizeTotal ==
    /\ AliasDone("normalizeBookName_table") =>
          /\ out.value = IF InputKey \in DOMAIN ABBREVIATION_TO_BOOK_table
                         THEN ABBREVIATION_TO_BOOK_table[InputKey] ELSE InputKey
          /\ \A y \in Respelled : normalizeBookName_table(y) = out.value
    /\ AliasDone("normalizeBookName") =>
          /\ out.value = IF InputKey \in DOMAIN ABBREVIATION_TO_BOOK
                         THEN ABBREVIATION_TO_BOOK[InputKey] ELSE InputKey
          /\ \A y \in Respelled : normalizeBookName(y) = out.value
    /\ AliasDone("isValidBookName_table") =>
          \A y \in Respelled : isValidBookName_table(y) = out.value
    /\ AliasDone("isValidBookName") =>
          \A y \in Respelled : isValidBookName(y) = out.value

\* the first registry entry with the given lower-cased English name
FirstEntryNamed(n) ==
    CHOOSE i \in 1..Len(scriptureMap) :
        /\ toLowerCase(scriptureMap[i].en) = n
        /\ \A j \in 1..(i - 1) : toLowerCase(scriptureMap[j].en) # n

\* C19: searchBooks returns exactly the canonical names of the books whose
\* code, name or some alias starts with the lower-cased trimmed prefix, each
\* name at most once, in registry iteration order.
C19_SearchBooks ==
    /\ AliasDone("searchBooks_table") =>
          LET wanted == {i \in 1..Len(BOOK_ABBREVIATIONS_table) :
                            \E a \in TableAliases(i) : StartsWith(a, InputKey)}
              names == out.value
          IN  /\ Len(names) = Cardinality(wanted)
              /\ \A k \in 1..Len(names) :
                    \E i \in wanted :
                        /\ names[k] = BOOK_ABBREVIATIONS_table[i].name
                        /\ Cardinality({j \in wanted : j <= i}) = k
    /\ AliasDone("searchBooks") =>
          LET wanted == {i \in 1..Len(scriptureMap) :
                            \E a \in RegistryAliases(i) : StartsWith(a, InputKey)}
              names == out.value
          IN  /\ {names[k] : k \in 1..Len(names)}
                    = {toLowerCase(scriptureMap[i].en) : i \in wanted}
              /\ \A j, k \in 1..Len(names) :
                    j < k => FirstEntryNamed(names[j]) < FirstEntryNamed(names[k])

\* a prefix written in capitals with white space before it finds several
\* books of the table, one of them only through an abbreviation
C19_Witness ==
    /\ AliasDone("searchBooks_table")
    /\ bookInput # InputKey
    /\ Len(InputKey) >= 2
    /\ Len(out.value) >= 3
    /\ \E k \in 1..Len(out.value) : ~StartsWith(out.value[k], InputKey)

\* the lower-cased canonical name of the book the input names, the lower-cased
\* input itself when it names none
CanonicalNameOf(input) ==
    LET n == toLowerCase(input)
    IN  IF \E i \in 1..Len(scriptureMap) : toLowerCase(scriptureMap[i].pt) = n
        THEN toLowerCase(scriptureMap[CHOOSE i \in 1..Len(scriptureMap) :
                                          toLowerCase(scriptureMap[i].pt) = n].en)
        ELSE n

\* C20: getBookAliases returns a set of strings: for every input the returned
\* list contains the lower-cased canonical name and no string more than once.
C20_AliasesAreSet ==
    /\ AliasDone("getBookAliases_table") =>
          /\ out.kind = "ok"
          /\ \E k \in 1..Len(out.value) : out.value[k] = toLowerCase(bookInput)
          /\ \A j, k \in 1..Len(out.value) : j # k => out.value[j] # out.value[k]
    /\ AliasDone("getBookAliases") =>
          /\ out.kind = "ok"
          /\ \E k \in 1..Len(out.value) : out.value[k] = CanonicalNameOf(bookInput)
          /\ \A j, k \in 1..Len(out.value) : j # k => out.value[j] # out.value[k]

(***************************** errors **************************************)
\* ' not found'
NotFoundSuffix == <<" ", "n", "o", "t", " ", "f", "o", "u", "n", "d">>

\* 'Internal server error'
InternalMessage == <<"I", "n", "t", "e", "r", "n", "a", "l", " ", "s", "e", "r", "v", "e", "r", " ", "e", "r", "r", "o", "r">>

\* new BibleAPIError(message, statusCode, code)
BibleAPIError(message, statusCode, code) ==
    [class |-> "BibleAPIError", message |-> message, statusCode |-> statusCode, code |-> code]

\* new BibleAPIError(message): statusCode and code take their defaults
BibleAPIErrorDefault(message) == BibleAPIError(message, 500, "INTERNAL_ERROR")

\* new NotFoundError(resource)
NewNotFoundError(resource) ==
    [class |-> "NotFoundError", message |-> resource \o NotFoundSuffix,
     statusCode |-> 404, code |-> "NOT_FOUND"]

\* new ValidationError(message)
NewValidationError(message) ==
    [class |-> "ValidationError", message |-> message,
     statusCode |-> 400, code |-> "VALIDATION_ERROR"]

\* a thrown value that is no BibleAPIError: another Error, or no Error at all
OtherThrown(class, message) == [class |-> class, message |-> message]

\* error instanceof BibleAPIError
InstanceOfBibleAPIError(error) ==
    error.class \in {"BibleAPIError", "NotFoundError", "ValidationError"}

\* mutant: every error is reported as an internal error
formatErrorResponse_alwaysInternal(error) ==
    [error |-> InternalMessage, code |-> "INTERNAL_ERROR", statusCode |-> 500]

formatErrorResponse(error) ==
    IF InstanceOfBibleAPIError(error)
    THEN [error |-> error.message, code |-> error.code, statusCode |-> error.statusCode]
    ELSE [error |-> InternalMessage, code |-> "INTERNAL_ERROR", statusCode |-> 500]

\* the route error handler: c.json({ error, code }, statusCode)
handleError(error) ==
    LET errorResponse == formatErrorResponse(error)
    IN  [body |-> [error |-> errorResponse.error, code |-> errorResponse.code],
         status |-> errorResponse.statusCode]

\* what a route can throw
Throwables ==
    {NewValidationError(m) : m \in Tokens}
        \cup {NewNotFoundError(m) : m \in Tokens}
        \cup {BibleAPIErrorDefault(m) : m \in Tokens}
        \cup {BibleAPIError(m, 400, "MISSING_QUERY") : m \in Tokens}
        \cup {OtherThrown(c, m) : c \in {"Error", "TypeError", "string"}, m \in Tokens}

InitErrors ==
    /\ pc = "idle"
    /\ op = "none"
    /\ translation = <<>>
    /\ bookInput = <<>>
    /\ found = NoResult
    /\ book = NoBook
    /\ chapterNum = 0
    /\ verseNum = 0
    /\ out = [kind |-> "none"]
    /\ args = <<>>
    /\ ReaderIdle
    /\ CacheIdle

CallHandleError ==
    /\ pc = "idle"
    /\ \E error \in Throwables :
        /\ args' = [error |-> error]
        /\ out' = handleError(error)
    /\ pc' = "done"
    /\ op' = "handleError"
    /\ UNCHANGED <<translation, bookInput, found, book, chapterNum, verseNum, readerVars, cacheVars>>

NextErrors == CallHandleError

SpecErrors == InitErrors /\ [][NextErrors]_vars

(***************************** claims: errors ******************************)
ErrorDone == pc = "done" /\ op = "handleError"

\* C21: every ValidationError is answered with status 400 and code
\* VALIDATION_ERROR, every NotFoundError with status 404 and code NOT_FOUND,
\* every value that is no BibleAPIError with status 500, code INTERNAL_ERROR
\* and the generic message; the handler's status is formatErrorResponse's.
C21_ErrorMapping ==
    ErrorDone =>
        /\ out.status = formatErrorResponse(args.error).statusCode
        /\ args.error.class = "ValidationError" =>
              out.status = 400 /\ out.body.code = "VALIDATION_ERROR"
        /\ args.error.class = "NotFoundError" =>
              out.status = 404 /\ out.body.code = "NOT_FOUND"
        /\ args.error.class \notin {"BibleAPIError", "NotFoundError", "ValidationError"} =>
              /\ out.status = 500
              /\ out.body.code = "INTERNAL_ERROR"
              /\ out.body.error = InternalMessage

\* a NotFoundError answered with 404 and its own message
C21_Witness ==
    /\ ErrorDone
    /\ args.error.class = "NotFoundError"
    /\ out.status = 404
    /\ out.body.error = args.error.message
    /\ out.body.error # InternalMessage

(***************************** getTranslation ******************************)
\* the translation files shipped with the package, by lower-case code
TranslationFiles == (<<"n", "v", "a">> :> SearchData(0))

\* what loadTranslation(code) can settle with: the file's content, or, when no
\* file can be imported, nothing (null) or an exception
LoadOutcomes(code) ==
    IF toLowerCase(code) \in DOMAIN TranslationFiles
    THEN {[kind |-> "data", value |-> TranslationFiles[toLowerCase(code)]]}
    ELSE {[kind |-> "null", value |-> <<>>], [kind |-> "throws", value |-> <<>>]}

\* mutant: the cache is never consulted
CacheHas_never(cache, key) == FALSE

\* translationCache.has(key)
CacheHas(cache, key) == key \in DOMAIN cache

\* mutant: the store is lost
MapSet_lost(cache, key, value) == cache

\* translationCache.set(key, value)
MapSet(cache, key, value) == (key :> value) @@ cache

\* new NotFoundError(`Translation '${key}'`)
TranslationNotFound(key) ==
    NewNotFoundError(<<"T", "r", "a", "n", "s", "l", "a", "t", "i", "o", "n", " ", "'">> \o key \o <<"'">>)

\* mutant: a failed load is stored as an empty translation
AfterLoad_cachesFailure(cache, key, loaded) ==
    IF loaded.kind = "data"
    THEN [cache |-> MapSet(cache, key, loaded.value), state |-> "returned", value |-> loaded.value]
    ELSE [cache |-> MapSet(cache, key, <<>>), state |-> "failed", value |-> TranslationNotFound(key)]

\* getTranslation after its await: a missing translation and an exception both
\* end in NotFoundError; a loaded translation is stored and returned
AfterLoad(cache, key, loaded) ==
    IF loaded.kind = "data"
    THEN [cache |-> MapSet(cache, key, loaded.value), state |-> "returned", value |-> loaded.value]
    ELSE [cache |-> cache, state |-> "failed", value |-> TranslationNotFound(key)]

InitCache ==
    /\ pc = "idle"
    /\ op = "none"
    /\ translation = <<>>
    /\ bookInput = <<>>
    /\ found = NoResult
    /\ book = NoBook
    /\ chapterNum = 0
    /\ verseNum = 0
    /\ out = [kind |-> "none"]
    /\ args = <<>>
    /\ ReaderIdle
    /\ CacheIdle

\* getTranslation(key) up to its first await: a hit returns at once, a miss
\* invokes the loader
GetTranslationStarts ==
    /\ Len(calls) < MaxCalls
    /\ \E key \in TranslationKeys :
        IF CacheHas(translationCache, key)
        THEN /\ calls' = Append(calls, [key |-> key, state |-> "returned", loaded |-> FALSE,
                                        value |-> translationCache[key]])
             /\ UNCHANGED loads
        ELSE /\ calls' = Append(calls, [key |-> key, state |-> "loading", loaded |-> TRUE,
                                        value |-> <<>>])
             /\ loads' = [loads EXCEPT ![key] = @ + 1]
    /\ UNCHANGED <<translationCache, translation, callVars, readerVars>>

\* the loader of one waiting call settles and the call runs to its end
LoadSettles ==
    /\ \E i \in 1..Len(calls) :
        /\ calls[i].state = "loading"
        /\ \E loaded \in LoadOutcomes(calls[i].key) :
            LET after == AfterLoad(translationCache, calls[i].key, loaded)
            IN  /\ translationCache' = after.cache
                /\ calls' = [calls EXCEPT ![i].state = after.state, ![i].value = after.value]
    /\ UNCHANGED <<loads, translation, callVars, readerVars>>

NextCache ==
    \/ GetTranslationStarts
    \/ LoadSettles

SpecCache == InitCache /\ [][NextCache]_vars

(* claim helpers *)
HasFile(key) == toLowerCase(key) \in DOMAIN TranslationFiles
FileOf(key) == TranslationFiles[toLowerCase(key)]
CallsFor(key) == {i \in 1..Len(calls) : calls[i].key = key}

\* C22: once a key is cached, its entry is never dropped nor replaced by a
\* different value, and a call made while the key is cached returns the cached
\* translation without invoking the loader
C22_CacheIsStable ==
    [][ /\ \A k \in DOMAIN translationCache :
            /\ k \in DOMAIN translationCache'
            /\ translationCache'[k] = translationCache[k]
        /\ \A k \in DOMAIN translationCache :
            (Len(calls') = Len(calls) + 1 /\ calls'[Len(calls')].key = k)
                => /\ calls'[Len(calls')].state = "returned"
                   /\ calls'[Len(calls')].value = translationCache[k]
                   /\ loads' = loads ]_vars

C22_Witness ==
    \E i \in 1..Len(calls) :
        /\ calls[i].state = "returned"
        /\ ~calls[i].loaded
        /\ loads[calls[i].key] = 1

\* C23: every call that returns, overlapping or not, returns the complete
\* translation of its key, and from then on the cache holds that same value
\* under the key
C23_OverlappingLoads ==
    /\ \A k \in DOMAIN translationCache :
        HasFile(k) /\ translationCache[k] = FileOf(k)
    /\ \A i \in 1..Len(calls) :
        calls[i].state = "returned"
            => /\ HasFile(calls[i].key)
               /\ calls[i].value = FileOf(calls[i].key)
               /\ calls[i].key \in DOMAIN translationCache
               /\ translationCache[calls[i].key] = calls[i].value

C23_Witness ==
    \E i, j \in 1..Len(calls) :
        /\ i < j
        /\ calls[i].key = calls[j].key
        /\ calls[i].loaded /\ calls[j].loaded
        /\ calls[i].state = "returned" /\ calls[j].state = "returned"
        /\ loads[calls[i].key] = 2
        /\ DOMAIN translationCache = {calls[i].key}

\* C24: for a key whose load yields nothing or throws, every call invokes the
\* loader exactly once and ends in NotFoundError, and the key is never cached
C24_FailedLoad ==
    \A k \in TranslationKeys :
        ~HasFile(k)
            => /\ k \notin DOMAIN translationCache
               /\ loads[k] = Cardinality(CallsFor(k))
               /\ \A i \in CallsFor(k) :
                    /\ calls[i].loaded
                    /\ calls[i].state \in {"loading", "failed"}
                    /\ calls[i].state = "failed" => calls[i].value = TranslationNotFound(k)

C24_Witness ==
    \E i, j \in 1..Len(calls) :
        /\ i < j
        /\ calls[i].key = calls[j].key
        /\ ~HasFile(calls[i].key)
        /\ calls[i].state = "failed" /\ calls[j].state = "failed"
        /\ loads[calls[i].key] = 2
        /\ translationCache = <<>>

(***************************** routes **************************************)
\* the GET routes of the app in the order they are registered; a path is a
\* sequence of segments and a pattern segment that starts with ":" is a
\* parameter
Routes ==
    << [handler |-> "translations",
        pattern |-> <<<<"b", "i", "b", "l", "e">>, <<"t", "r", "a", "n", "s", "l", "a", "t", "i", "o", "n", "s">>>>],
       [handler |-> "books",
        pattern |-> <<<<"b", "i", "b", "l", "e">>, <<":", "t", "r", "a", "n", "s", "l", "a", "t", "i", "o", "n">>, <<"b", "o", "o", "k", "s">>>>],
       [handler |-> "bookInfo",
        pattern |-> <<<<"b", "i", "b", "l", "e">>, <<":", "t", "r", "a", "n", "s", "l", "a", "t", "i", "o", "n">>, <<":", "b", "o", "o", "k">>, <<"i", "n", "f", "o">>>>],
       [handler |-> "aliases",
        pattern |-> <<<<"b", "i", "b", "l", "e">>, <<":", "t", "r", "a", "n", "s", "l", "a", "t", "i", "o", "n">>, <<":", "b", "o", "o", "k">>, <<"a", "l", "i", "a", "s", "e", "s">>>>],
       [handler |-> "booksSearch",
        pattern |-> <<<<"b", "i", "b", "l", "e">>, <<"b", "o", "o", "k", "s">>, <<"s", "e", "a", "r", "c", "h">>>>],
       [handler |-> "verse",
        pattern |-> <<<<"b", "i", "b", "l", "e">>, <<":", "t", "r", "a", "n", "s", "l", "a", "t", "i", "o", "n">>, <<":", "b", "o", "o", "k">>, <<":", "c", "h", "a", "p", "t", "e", "r">>, <<":", "v", "e", "r", "s", "e">>>>],
       [handler |-> "chapters",
        pattern |-> <<<<"b", "i", "b", "l", "e">>, <<":", "t", "r", "a", "n", "s", "l", "a", "t", "i", "o", "n">>, <<":", "b", "o", "o", "k">>, <<"c", "h", "a", "p", "t", "e", "r", "s">>>>],
       [handler |-> "chapter",
        pattern |-> <<<<"b", "i", "b", "l", "e">>, <<":", "t", "r", "a", "n", "s", "l", "a", "t", "i", "o", "n">>, <<":", "b", "o", "o", "k">>, <<":", "c", "h", "a", "p", "t", "e", "r">>>>],
       [handler |-> "fullTranslation",
        pattern |-> <<<<"b", "i", "b", "l", "e">>, <<"f", "u", "l", "l">>, <<":", "t", "r", "a", "n", "s", "l", "a", "t", "i", "o", "n">>>>],
       [handler |-> "fullBook",
        pattern |-> <<<<"b", "i", "b", "l", "e">>, <<":", "t", "r", "a", "n", "s", "l", "a", "t", "i", "o", "n">>, <<":", "b", "o", "o", "k">>, <<"f", "u", "l", "l">>>>],
       [handler |-> "search",
        pattern |-> <<<<"b", "i", "b", "l", "e">>, <<":", "t", "r", "a", "n", "s", "l", "a", "t", "i", "o", "n">>, <<"s", "e", "a", "r", "c", "h">>>>] >>

\* a pattern matches a path of as many segments whose literal segments agree
MatchesRoute(pattern, path) ==
    /\ Len(pattern) = Len(path)
    /\ \A i \in 1..Len(pattern) : Head(pattern[i]) = ":" \/ pattern[i] = path[i]

\* the first route registered whose pattern matches, 0 when none does
FirstMatch(path) ==
    Find([i \in 1..Len(Routes) |-> MatchesRoute(Routes[i].pattern, path)])

\* c.req.param(): the path segment under a parameter's name
Param(route, path, name) ==
    path[CHOOSE i \in 1..Len(route.pattern) : route.pattern[i] = <<":">> \o name]

\* the translation file in the shape the route handlers read:
\* { books: [{ name, chapters: [{ chapter, name, verses: [{ verse, text }] }] }] }
RouteBookName == <<"G", "e", "n", "e", "s", "i", "s">>
RouteChapter(n, verses) ==
    [ chapter |-> n,
      name |-> RouteBookName \o <<" ">> \o ToDecimal(n),
      verses |-> [v \in 1..verses |->
                    [verse |-> v, chapter |-> n,
                     name |-> RouteBookName \o <<" ">> \o ToDecimal(n) \o <<":">> \o ToDecimal(v),
                     text |-> VerseText(n, v)]] ]
RouteFiles ==
    (<<"n", "v", "a">> :>
        [books |-> << [name |-> RouteBookName,
                       chapters |-> <<RouteChapter(1, 2), RouteChapter(2, 1)>>] >>])

\* what loadTranslation(code) can settle with for a route
RouteLoadOutcomes(code) ==
    IF toLowerCase(code) \in DOMAIN RouteFiles
    THEN {[kind |-> "data", value |-> RouteFiles[toLowerCase(code)]]}
    ELSE {[kind |-> "null", value |-> Null], [kind |-> "throws", value |-> Null]}

Throw(error) == [kind |-> "throw", error |-> error]

\* getTranslation as the route handlers call it: whatever the loader returns
\* is stored and returned; a loader exception becomes NotFoundError
getTranslation_inRoute(cache, key, loaded) ==
    IF CacheHas(cache, key) THEN [cache |-> cache, result |-> Ok(cache[key])]
    ELSE IF loaded.kind = "throws" THEN [cache |-> cache, result |-> Throw(TranslationNotFound(key))]
    ELSE [cache |-> MapSet(cache, key, loaded.value), result |-> Ok(loaded.value)]

\* validateNumber(value, name) with the error it throws
validateNumber_named(value, name) ==
    LET num == parseInt(value)
    IN  IF num.isNaN \/ num.num < 1
        THEN Throw(NewValidationError(name \o <<" ", "m", "u", "s", "t", " ", "b", "e", " ", "a", " ", "p", "o", "s", "i", "t", "i", "v", "e", " ", "n", "u", "m", "b", "e", "r">>))
        ELSE Ok(num.num)

\* the first of three find results that found something
FirstFound(a, b, c) == IF a # 0 THEN a ELSE IF b # 0 THEN b ELSE c

\* if (!book) throw new NotFoundError(...); return book
BookOrNotFound(t, bookName, i) ==
    IF i = 0
    THEN Throw(NewNotFoundError(<<"B", "o", "o", "k", " ", "'">> \o bookName \o <<"'", " ", "(", "s", "e", "a", "r", "c", "h", "e", "d", " ", "a", "s", " ", "'">>
                                    \o normalizeBookName_table(bookName) \o <<"'", ")">>))
    ELSE Ok(t.books[i])

\* findBook of the route handlers: by normalized name, by name, by partial name
findBook_inRoute(t, bookName) ==
    IF t = Null THEN Throw(OtherThrown("TypeError", <<>>))
    ELSE BookOrNotFound(t, bookName,
            FirstFound(
                Find([k_ \in 1..Len(t.books) |->
                        toLowerCase(t.books[k_].name) = normalizeBookName_table(bookName)]),
                Find([k_ \in 1..Len(t.books) |->
                        toLowerCase(t.books[k_].name) = toLowerCase(bookName)]),
                Find([k_ \in 1..Len(t.books) |->
                        \/ includes(toLowerCase(t.books[k_].name), toLowerCase(bookName))
                        \/ includes(toLowerCase(bookName), toLowerCase(t.books[k_].name))])))

\* findChapter of the route handlers: the chapter numbered chapterNum
findChapter_inRoute(b, n) ==
    LET i == Find([k_ \in 1..Len(b.chapters) |-> b.chapters[k_].chapter = n])
    IN  IF i = 0
        THEN Throw(NewNotFoundError(<<"C", "h", "a", "p", "t", "e", "r", " ">> \o ToDecimal(n) \o <<" ", "i", "n", " ", "b", "o", "o", "k", " ", "'">> \o b.name \o <<"'">>))
        ELSE Ok(b.chapters[i])

\* formatVerse
formatVerse(verse, bookName, n, translationKey) ==
    [ verse |-> verse.verse, chapter |-> n, book |-> bookName, translation |-> translationKey,
      name |-> bookName \o <<" ">> \o ToDecimal(n) \o <<":">> \o ToDecimal(verse.verse),
      text |-> verse.text ]

\* formatChapter without a verse filter
formatChapter(chapter, bookName, translationKey) ==
    [ translation |-> translationKey, book |-> bookName,
      chapter |-> chapter.chapter, name |-> chapter.name,
      verses |-> [v \in 1..Len(chapter.verses) |->
                    formatVerse(chapter.verses[v], bookName, chapter.chapter, translationKey)] ]

\* the full-book download: every chapter with every verse
FullBook(b, bookParam, translationKey) ==
    [ translation |-> translationKey, book |-> bookParam, displayName |-> b.name,
      chapters |-> [c \in 1..Len(b.chapters) |->
                      [ chapter |-> b.chapters[c].chapter, name |-> b.chapters[c].name,
                        verses |-> [v \in 1..Len(b.chapters[c].verses) |->
                                      [verse |-> b.chapters[c].verses[v].verse,
                                       text |-> b.chapters[c].verses[v].text]] ]] ]

\* c.json(value): status 200
Json(handler, cache, value) ==
    [handler |-> handler, status |-> 200, body |-> value, cache |-> cache]

\* catch (error) { return handleError(c, error) }
Caught(handler, cache, error) ==
    LET r == handleError(error)
    IN  [handler |-> handler, status |-> r.status, body |-> r.body, cache |-> cache]

\* the chapter handler from findChapter on
ChapterFound(cache, translationKey, bookParam, chapterFound) ==
    IF chapterFound.kind # "ok" THEN Caught("chapter", cache, chapterFound.error)
    ELSE Json("chapter", cache, formatChapter(chapterFound.value, bookParam, translationKey))

\* the chapter handler from findBook on
ChapterInBook(cache, translationKey, bookParam, n, bookData) ==
    IF bookData.kind # "ok" THEN Caught("chapter", cache, bookData.error)
    ELSE ChapterFound(cache, translationKey, bookParam, findChapter_inRoute(bookData.value, n))

\* the chapter handler from getTranslation on
ChapterTranslated(translationKey, bookParam, n, got) ==
    IF got.result.kind # "ok" THEN Caught("chapter", got.cache, got.result.error)
    ELSE ChapterInBook(got.cache, translationKey, bookParam, n,
                       findBook_inRoute(got.result.value, bookParam))

\* the chapter handler from validateNumber on
ChapterNumbered(cache, translationKey, bookParam, loaded, n) ==
    IF n.kind # "ok" THEN Caught("chapter", cache, n.error)
    ELSE ChapterTranslated(translationKey, bookParam, n.value,
                           getTranslation_inRoute(cache, translationKey, loaded))

\* GET /bible/:translation/:book/:chapter without a from or to query:
\* validateNumber, getTranslation, findBook, findChapter, formatChapter
ChapterHandler(cache, path, loaded) ==
    ChapterNumbered(cache,
                    Param(Routes[8], path, <<"t", "r", "a", "n", "s", "l", "a", "t", "i", "o", "n">>),
                    Param(Routes[8], path, <<"b", "o", "o", "k">>),
                    loaded,
                    validateNumber_named(Param(Routes[8], path, <<"c", "h", "a", "p", "t", "e", "r">>), <<"c", "h", "a", "p", "t", "e", "r">>))

\* the full-book handler from findBook on
FullBookInBook(cache, translationKey, bookParam, bookData) ==
    IF bookData.kind # "ok" THEN Caught("fullBook", cache, bookData.error)
    ELSE Json("fullBook", cache, FullBook(bookData.value, bookParam, translationKey))

\* the full-book handler from getTranslation on
FullBookTranslated(translationKey, bookParam, got) ==
    IF got.result.kind # "ok" THEN Caught("fullBook", got.cache, got.result.error)
    ELSE FullBookInBook(got.cache, translationKey, bookParam,
                        findBook_inRoute(got.result.value, bookParam))

\* GET /bible/:translation/:book/full: getTranslation, findBook, formattedBook
FullBookHandler(cache, path, loaded) ==
    FullBookTranslated(Param(Routes[10], path, <<"t", "r", "a", "n", "s", "l", "a", "t", "i", "o", "n">>),
                       Param(Routes[10], path, <<"b", "o", "o", "k">>),
                       getTranslation_inRoute(cache, Param(Routes[10], path, <<"t", "r", "a", "n", "s", "l", "a", "t", "i", "o", "n">>), loaded))

\* the response to GET /api/<path>: the first matching route's handler answers.
\* The chapter and full-book handlers are modelled in full; of the other
\* handlers only the name is kept, and no route gives the router's 404.
Respond(cache, path, loaded) ==
    LET i == FirstMatch(path)
    IN  IF i = 0 THEN [handler |-> "none", status |-> 404, body |-> <<>>, cache |-> cache]
        ELSE IF Routes[i].handler = "chapter" THEN ChapterHandler(cache, path, loaded)
        ELSE IF Routes[i].handler = "fullBook" THEN FullBookHandler(cache, path, loaded)
        ELSE [handler |-> Routes[i].handler, status |-> 0, body |-> <<>>, cache |-> cache]

PathSegments ==
    {<<"n", "v", "a">>, <<"x", "x">>, <<"g", "n">>, <<"f", "u", "l", "l">>, <<"1">>, <<"3">>, <<"i", "n", "f", "o">>}

\* the paths requested: /api/bible/ followed by 1..MaxPathParams segments
RequestPaths ==
    {<<<<"b", "i", "b", "l", "e">>>> \o rest : rest \in SeqsUpTo(PathSegments, MaxPathParams) \ {<<>>}}

InitRoutes ==
    /\ pc = "idle"
    /\ op = "none"
    /\ translation = <<>>
    /\ bookInput = <<>>
    /\ found = NoResult
    /\ book = NoBook
    /\ chapterNum = 0
    /\ verseNum = 0
    /\ out = [kind |-> "none"]
    /\ args = <<>>
    /\ ReaderIdle
    /\ CacheIdle

\* one GET request is routed and answered
Dispatch ==
    /\ pc = "idle"
    /\ \E path \in RequestPaths :
        \E loaded \in RouteLoadOutcomes(path[2]) :
            LET r == Respond(translationCache, path, loaded)
            IN  /\ args' = [path |-> path]
                /\ out' = [handler |-> r.handler, status |-> r.status, body |-> r.body]
                /\ translationCache' = r.cache
    /\ pc' = "done"
    /\ op' = "GET"
    /\ UNCHANGED <<translation, bookInput, found, book, chapterNum, verseNum, readerVars, calls, loads>>

NextRoutes == Dispatch

SpecRoutes == InitRoutes /\ [][NextRoutes]_vars

(* claim helpers *)
RouteDone == pc = "done" /\ op = "GET"
Loadable(key) == toLowerCase(key) \in DOMAIN RouteFiles
Resolvable(key, bookParam) ==
    Loadable(key) /\ findBook_inRoute(RouteFiles[toLowerCase(key)], bookParam).kind = "ok"
IsFullBookRequest ==
    /\ RouteDone
    /\ Len(args.path) = 4
    /\ args.path[4] = <<"f", "u", "l", "l">>
    /\ Resolvable(args.path[2], args.path[3])

\* C25: GET /api/bible/{translation}/{book}/full with a loadable translation
\* and a resolvable book is answered by the full-book download handler with
\* all chapters and all verses of the book
C25_FullBookRoute ==
    IsFullBookRequest
        => /\ out.handler = "fullBook"
           /\ out.status = 200
           /\ out.body = FullBook(findBook_inRoute(RouteFiles[toLowerCase(args.path[2])], args.path[3]).value,
                                  args.path[3], args.path[2])

\* what the code does with such a request: the chapter route, registered
\* earlier, answers 400 because "full" is no positive number
C25_ChapterRouteAnswers ==
    IsFullBookRequest
        => /\ out.handler = "chapter"
           /\ out.status = 400
           /\ out.body.code = "VALIDATION_ERROR"

C25_Witness == IsFullBookRequest

(***************************** getShareUrl *********************************)
\* Array.from(set).sort((a, b) => a - b)
RECURSIVE SortAscending(_)
SortAscending(set) ==
    IF set = {} THEN <<>>
    ELSE LET least == CHOOSE n \in set : \A m \in set : n <= m
         IN  <<least>> \o SortAscending(set \ {least})

\* window.location.origin
Origin == <<"h", "t", "t", "p", ":", "/", "/", "h">>

\* mutant: the range ends at the second selected verse
getShareUrl_endsAtSecond(verses, bookCode, n) ==
    IF Cardinality(verses) = 0 THEN <<>>
    ELSE LET sortedVerses == SortAscending(verses)
             versesParam == IF Len(sortedVerses) = 1
                            THEN ToDecimal(sortedVerses[1])
                            ELSE ToDecimal(sortedVerses[1]) \o <<"-">> \o ToDecimal(sortedVerses[2])
         IN  Origin \o <<"/">> \o bookCode \o <<"/">> \o ToDecimal(n) \o <<"/">> \o versesParam

getShareUrl(verses, bookCode, n) ==
    IF Cardinality(verses) = 0 THEN <<>>
    ELSE LET sortedVerses == SortAscending(verses)
             versesParam == IF Len(sortedVerses) = 1
                            THEN ToDecimal(sortedVerses[1])
                            \* always the range from the smallest to the largest verse
                            ELSE ToDecimal(sortedVerses[1]) \o <<"-">>
                                    \o ToDecimal(sortedVerses[Len(sortedVerses)])
         IN  Origin \o <<"/">> \o bookCode \o <<"/">> \o ToDecimal(n) \o <<"/">> \o versesParam

\* the reader shows the one chapter of a book of MaxSelectable verses
InitShare ==
    /\ pc = "idle"
    /\ op = "none"
    /\ translation = <<BookOfShape(<<MaxSelectable>>)>>
    /\ bookInput = <<>>
    /\ found = NoResult
    /\ book = NoBook
    /\ chapterNum = 0
    /\ verseNum = 0
    /\ out = [kind |-> "none"]
    /\ args = <<>>
    /\ selectedBook = translation[1].code
    /\ selectedChapter = 1
    /\ chapterData = ChapterEndpoint(translation, toLowerCase(translation[1].name), 1).value
    /\ loading = FALSE
    /\ inflight = <<>>
    /\ selectedVerses = {}
    /\ CacheIdle

\* a click on one of the verses on display
toggleVerseSelection ==
    /\ \E i \in 1..Len(chapterData.verses) :
        LET verseNumber == chapterData.verses[i].verse
        IN  selectedVerses' = IF verseNumber \in selectedVerses
                              THEN selectedVerses \ {verseNumber}
                              ELSE selectedVerses \cup {verseNumber}
    /\ UNCHANGED <<cacheVars, translation, callVars, selectedBook, selectedChapter,
                   chapterData, loading, inflight>>

clearSelection ==
    /\ selectedVerses' = {}
    /\ UNCHANGED <<cacheVars, translation, callVars, selectedBook, selectedChapter,
                   chapterData, loading, inflight>>

CallGetShareUrl ==
    /\ args' = [selectedVerses |-> selectedVerses]
    /\ out' = Ok(getShareUrl(selectedVerses, selectedBook, selectedChapter))
    /\ pc' = "done"
    /\ op' = "getShareUrl"
    /\ UNCHANGED <<translation, bookInput, found, book, chapterNum, verseNum, readerVars, cacheVars>>

NextShare ==
    \/ toggleVerseSelection
    \/ clearSelection
    \/ CallGetShareUrl

SpecShare == InitShare /\ [][NextShare]_vars

(* claim helpers *)
ShareDone == pc = "done" /\ op = "getShareUrl" /\ args.selectedVerses # {}
LeastOf(set) == CHOOSE n \in set : \A m \in set : n <= m
GreatestOf(set) == CHOOSE n \in set : \A m \in set : n >= m
\* the last path segment of a URL
LastSegment(url) == LET parts == split(url, "/") IN parts[Len(parts)]
Contiguous(set) == \A n \in LeastOf(set)..GreatestOf(set) : n \in set

\* C26: for a non-empty selection S the share URL ends in "min(S)" when S has
\* one verse and in "min(S)-max(S)" otherwise; parseVerseRange of that
\* parameter lists every number from min(S) to max(S), which contains S and
\* equals S exactly when S is contiguous
C26_ShareRoundTrip ==
    ShareDone =>
        LET selected == args.selectedVerses
            lo == LeastOf(selected)
            hi == GreatestOf(selected)
            param == LastSegment(out.value)
            parsed == parseVerseRange(param)
        IN  /\ param = IF Cardinality(selected) = 1 THEN ToDecimal(lo)
                       ELSE ToDecimal(lo) \o <<"-">> \o ToDecimal(hi)
            /\ parsed # Null
            /\ parsed.verses = [k \in 1..(hi - lo + 1) |-> lo + k - 1]
            /\ selected \subseteq {parsed.verses[k] : k \in 1..Len(parsed.verses)}
            /\ ({parsed.verses[k] : k \in 1..Len(parsed.verses)} = selected) <=> Contiguous(selected)

\* a selection with a gap was shared
C26_Witness ==
    /\ ShareDone
    /\ Cardinality(args.selectedVerses) >= 2
    /\ ~Contiguous(args.selectedVerses)

(* claim helpers *)
AllFetchesSettled == inflight = <<>>

\* C27: once every chapter fetch has settled, the chapter on display is the
\* one requested last: its number is selectedChapter and its book is
\* selectedBook, whatever the order of the responses and whether or not a
\* fetch failed
C27_LastRequestShown ==
    AllFetchesSettled
        => /\ chapterData # Null
           /\ chapterData.chapter.number = selectedChapter
           /\ chapterData.book.code = selectedBook

\* every fetch in flight settles sooner or later: the request is answered or
\* the network gives up
SpecReaderFair == SpecReader /\ WF_vars(FetchSettles)

\* C28: loading is true whenever a chapter fetch is in flight, and once all
\* fetches have settled it becomes false
C28_LoadingFlag ==
    /\ [](inflight # <<>> => loading)
    /\ (AllFetchesSettled ~> ~loading)

\* the half of it the code keeps: a raised flag is lowered again
C28_FlagIsLowered == loading ~> ~loading

(***************************** claims: substring tokens ********************)
\* the books of the translation whose name contains the token or is
\* contained in it
SubstringHits(t, token) == {i \in 1..Len(t) : RuleMatches(5, t[i], token)}

\* C29 as worded: a token contained in, or containing, some book name always
\* resolves to the first such book in translation order
C29_SubstringToken_AsWritten ==
    (FindBookDone /\ SubstringHits(translation, bookInput) # {})
        => found = Returned(Least(SubstringHits(translation, bookInput)))

\* C29: a token that is empty after trimming finds the first book of a
\* non-empty translation; a token contained in, or containing, some book name
\* never fails, and it finds the first such book unless one of the four
\* earlier rules matches
C29_SubstringToken ==
    FindBookDone =>
        /\ (trim(bookInput) = <<>> /\ translation # <<>>) => found = Returned(1)
        /\ SubstringHits(translation, bookInput) # {} =>
              /\ found.kind = "ok"
              /\ (MatchedRules(translation, bookInput) \cap (1..4) = {})
                    => found = Returned(Least(SubstringHits(translation, bookInput)))

\* a token of blanks found the first of two books
C29_Witness ==
    /\ FindBookDone
    /\ Len(translation) = 2
    /\ bookInput # <<>>
    /\ trim(bookInput) = <<>>
    /\ found = Returned(1)

\* a token inside the second book's name only found the second book
C29_WitnessSecond ==
    /\ FindBookDone
    /\ Len(translation) = 2
    /\ bookInput # <<>>
    /\ SubstringHits(translation, bookInput) = {2}
    /\ MatchedRules(translation, bookInput) = {5}
    /\ found = Returned(2)

(***************************** claims: from beyond the chapter *************)
FromBeyondChapter ==
    /\ FilterDone
    /\ Truthy(args.from)
    /\ ValidParam(args.from)
    /\ FilterFrom > Len(args.chapter)

\* C30: with a supplied from above the chapter length, filterVersesByRange
\* throws ValidationError when to is left out, and returns the empty list when
\* a to of at least from is supplied; no call returns a verse numbered above
\* the chapter length or a text that is not the chapter's
C30_FromBeyondChapter ==
    /\ FromBeyondChapter =>
        /\ ~Truthy(args.to) => out = Thrown("ValidationError")
        /\ (Truthy(args.to) /\ ValidParam(args.to) /\ FilterTo >= FilterFrom) => out = Ok(<<>>)
    /\ (FilterDone /\ out.kind = "ok") =>
        \A k \in 1..Len(out.value) :
            /\ out.value[k].verse \in 1..Len(args.chapter)
            /\ out.value[k].text = args.chapter[out.value[k].verse]

\* from beyond a chapter that has verses, with a larger to
C30_Witness ==
    /\ FromBeyondChapter
    /\ Len(args.chapter) >= 1
    /\ Truthy(args.to)
    /\ ValidParam(args.to)
    /\ FilterTo > FilterFrom
    /\ out = Ok(<<>>)

\* from beyond a chapter that has verses, without to
C30_WitnessOmitted ==
    /\ FromBeyondChapter
    /\ Len(args.chapter) >= 1
    /\ args.to = Omitted
    /\ out = Thrown("ValidationError")

====
